---- MODULE Spec2Model ----
(***************************************************************************)
(* Media normalization pipeline of the study/social application:           *)
(*   - CloudMediaService   (src/server/routes.ts, lines 909-1014)          *)
(*   - MediaStorageService (src/server/media-storage.ts)                   *)
(*   - GET /uploads/:filename and POST /api/posts (src/server/routes.ts)   *)
(*   - POST /api/admin/send-announcement (src/server/routes.ts, 807-894)   *)
(*   - the MediaUpload component of the client                             *)
(*     (src/client/src/components/posts/media-upload.tsx)                  *)
(*   - POST /api/admin/optimize-media and send-violation-notice            *)
(*   - likes, comments and xp of DatabaseStorage (src/server/storage.ts)   *)
(*   - NotificationService (src/server/notification-service.ts)            *)
(*                                                                         *)
(* Strings are modelled by their parts.  A URL is a record                 *)
(*   [prefix, mime, payload, path]                                         *)
(* where prefix is the leading token ("data:", "https://", "/uploads/"),   *)
(* mime and payload are the MIME type and the base64 text of a data URL    *)
(* (a sequence of sextets 0..63), and path is the rest of a plain URL as   *)
(* a sequence of tokens.  An optional value (thumbnailUrl?, Buffer | null) *)
(* is a sequence of length 0 or 1.                                         *)
(***************************************************************************)
EXTENDS Integers, Sequences, FiniteSets, TLC

VARIABLES
    apiKey,     \* process.env.IMGBB_API_KEY is set
    files,      \* the uploads directory: <<id, ext>> -> bytes
    call,       \* one invocation of processMediaUrls (cloud or local service)
    stored,     \* result of the last direct storeMedia call
    got,        \* result of the last direct getMedia call
    served,     \* request and response of the last GET /uploads/:filename
    reqs,       \* POST /api/posts requests in flight
    posts,      \* rows of the posts table
    job,        \* cloud processMediaUrls followed await by await
    ui,         \* the MediaUpload component and its parent's selection
    probe,      \* one application of processFile to an image
    ann,        \* the handler of POST /api/admin/send-announcement
    disk,       \* the local storage service step by step, with its directory
    trial,      \* one storeMedia call on a chosen MIME type
    opt,        \* POST /api/admin/optimize-media, await by await
    sug,        \* generatePostSuggestions, await by await
    likes,      \* post_likes, likes_count, notifications and the like requests
    comments,   \* post_comments, comments_count and the comment call
    notice,     \* POST /api/admin/send-violation-notice, await by await
    xp          \* the user's xp and level and the updateUserXP calls

vars == <<apiKey, files, call, stored, got, served, reqs, posts, job, ui, probe, ann, disk, trial, opt, sug, likes, comments, notice, xp>>

\* The variables of the media services and of POST /api/posts
server == <<apiKey, files, call, stored, got, served, reqs, posts>>

\* The variables of the client component and of the handlers and calls
\* followed step by step, and all variables but one of these
added == <<job, ui, probe, ann, disk, trial, opt, sug, likes, comments, notice, xp>>
exceptJob == <<server, ui, probe, ann, disk, trial, opt, sug, likes, comments, notice, xp>>
exceptUi == <<server, job, probe, ann, disk, trial, opt, sug, likes, comments, notice, xp>>
exceptProbe == <<server, job, ui, ann, disk, trial, opt, sug, likes, comments, notice, xp>>
exceptAnn == <<server, job, ui, probe, disk, trial, opt, sug, likes, comments, notice, xp>>
exceptDisk == <<server, job, ui, probe, ann, trial, opt, sug, likes, comments, notice, xp>>
exceptTrial == <<server, job, ui, probe, ann, disk, opt, sug, likes, comments, notice, xp>>
exceptOpt == <<server, job, ui, probe, ann, disk, trial, sug, likes, comments, notice, xp>>
exceptSug == <<server, job, ui, probe, ann, disk, trial, opt, likes, comments, notice, xp>>
exceptLikes == <<server, job, ui, probe, ann, disk, trial, opt, sug, comments, notice, xp>>
exceptComments == <<server, job, ui, probe, ann, disk, trial, opt, sug, likes, notice, xp>>
exceptNotice == <<server, job, ui, probe, ann, disk, trial, opt, sug, likes, comments, xp>>
exceptXp == <<server, job, ui, probe, ann, disk, trial, opt, sug, likes, comments, notice>>

(***************************** bounds **************************************)
MaxLen == 2         \* longest media list handed to processMediaUrls
MaxFiles == 2       \* most files the uploads directory holds
MaxPosts == 2       \* most rows of the posts table
maxFiles == 2       \* the maxFiles prop of MediaUpload (5 when not given)
MaxNotifications == 2   \* rows of the notifications table before requests stop
MaxComments == 3    \* comments ever created
MaxXpCalls == 3     \* calls of updateUserXP

(***************************** strings *************************************)
DataUrl(mime, b64) ==
    [prefix |-> "data:", mime |-> mime, payload |-> b64, path |-> <<>>]

PlainUrl(prefix, path) ==
    [prefix |-> prefix, mime |-> "", payload |-> <<>>, path |-> path]

\* url.startsWith('data:')
StartsWithData(url) == url.prefix = "data:"

\* dataUrl.split(',')[1]
Base64Part(dataUrl) == dataUrl.payload

\* Buffer.from(text, 'base64'): four sextets make three bytes; a tail of
\* three sextets makes two bytes, of two sextets one byte, of one none.
RECURSIVE Base64Decode(_)
Base64Decode(s) ==
    IF Len(s) < 2 THEN <<>>
    ELSE LET b1 == s[1] * 4 + (s[2] \div 16)
         IN  IF Len(s) = 2 THEN <<b1>>
             ELSE LET b2 == (s[2] % 16) * 16 + (s[3] \div 4)
                  IN  IF Len(s) = 3 THEN <<b1, b2>>
                      ELSE <<b1, b2, (s[3] % 4) * 64 + s[4]>>
                               \o Base64Decode(SubSeq(s, 5, Len(s)))

\* media.url.match(/data:([^;]+)/): the MIME type, 'image/jpeg' when the
\* data URL names none
MimeOfDataUrl(url) == IF url.mime # "" THEN url.mime ELSE "image/jpeg"

\* mimeType.startsWith('image/'), mimeType.startsWith('video/')
IsImageMime(m) ==
    m \in {"image/jpeg", "image/jpg", "image/png", "image/gif", "image/webp", "image/bmp"}
IsVideoMime(m) ==
    m \in {"video/mp4", "video/webm", "video/quicktime", "video/x-msvideo"}

(************************* input universe **********************************)
B64a == <<0, 0, 0, 0>>          \* "AAAA"
B64b == <<16, 20, 9, 3>>        \* "QUJD"
B64c == <<16, 20, 8>>           \* "QUI" ("QUI=" without its padding)
B64d == <<16, 16>>              \* "QQ"  ("QQ==" without its padding)

CdnUrl(name) == PlainUrl("https://", <<"cdn.example/", name>>)

Media(type, url, thumb) == [type |-> type, url |-> url, thumbnailUrl |-> thumb]

\* The descriptors a client sends: an image and a video as data URLs (a
\* video's thumbnail is its own data URL, as the client sets it), and an
\* image and a video that are already normalized.
InputMedia ==
    { Media("image", DataUrl("image/png", B64a), <<>>),
      Media("video", DataUrl("video/mp4", B64b), <<DataUrl("video/mp4", B64b)>>),
      Media("image", CdnUrl("x.png"), <<CdnUrl("x_thumb.png")>>),
      Media("video", PlainUrl("/uploads/", <<"a1", ".", "mp4">>), <<>>) }

RECURSIVE SeqsUpTo(_, _)
SeqsUpTo(S, n) ==
    IF n = 0 THEN {<<>>}
    ELSE LET shorter == SeqsUpTo(S, n - 1)
         IN  shorter \cup {Append(s, x) : s \in {t \in shorter : Len(t) = n - 1}, x \in S}

MediaLists == SeqsUpTo(InputMedia, MaxLen)

(********************** cloud media service *********************************)
NoUrl == PlainUrl("", <<>>)

NoResult == [url |-> NoUrl, thumbnailUrl |-> <<>>, deleteUrl |-> <<>>, id |-> ""]

ProviderData(name, thumb, medium) ==
    [url |-> CdnUrl(name), thumb |-> thumb, medium |-> medium,
     delete_url |-> PlainUrl("https://", <<"cdn.example/delete/", name>>), id |-> name]

NoData == [url |-> NoUrl, thumb |-> <<>>, medium |-> <<>>, delete_url |-> NoUrl, id |-> ""]

\* What one POST to the provider can come to: fetch rejects (net = FALSE), a
\* non-2xx status (ok = FALSE), a body with success: false, or a body with
\* success: true and data {url, thumb?.url, medium?.url, delete_url, id}.
Responses ==
    { [net |-> FALSE, ok |-> FALSE, success |-> FALSE, data |-> NoData],
      [net |-> TRUE, ok |-> FALSE, success |-> FALSE, data |-> NoData],
      [net |-> TRUE, ok |-> TRUE, success |-> FALSE, data |-> NoData],
      [net |-> TRUE, ok |-> TRUE, success |-> TRUE,
       data |-> ProviderData("p.png", <<CdnUrl("p_thumb.png")>>, <<CdnUrl("p_medium.png")>>)],
      [net |-> TRUE, ok |-> TRUE, success |-> TRUE,
       data |-> ProviderData("q.png", <<>>, <<CdnUrl("q_medium.png")>>)] }

\* Mutant of UploadImage: the body's success flag is not examined
UploadImageAnyBody(key, dataUrl, resp) ==
    IF ~key THEN [threw |-> TRUE, fetched |-> FALSE, result |-> NoResult]
    ELSE IF ~resp.net \/ ~resp.ok
         THEN [threw |-> TRUE, fetched |-> TRUE, result |-> NoResult]
         ELSE [threw |-> FALSE, fetched |-> TRUE,
               result |-> [url |-> resp.data.url,
                           thumbnailUrl |-> resp.data.thumb,
                           deleteUrl |-> <<resp.data.delete_url>>,
                           id |-> resp.data.id]]

\* CloudMediaService.uploadImage: [threw, fetched, result]
UploadImage(key, dataUrl, resp) ==
    IF ~key THEN [threw |-> TRUE, fetched |-> FALSE, result |-> NoResult]
    ELSE IF ~resp.net \/ ~resp.ok \/ ~resp.success
         THEN [threw |-> TRUE, fetched |-> TRUE, result |-> NoResult]
         ELSE [threw |-> FALSE, fetched |-> TRUE,
               result |-> [url |-> resp.data.url,
                           thumbnailUrl |-> IF resp.data.thumb # <<>>
                                            THEN resp.data.thumb
                                            ELSE resp.data.medium,
                           deleteUrl |-> <<resp.data.delete_url>>,
                           id |-> resp.data.id]]

\* An invocation of processMediaUrls: the list given, the loop's position
\* (i entries done), the list built so far, whether an exception left the
\* function, the calls it made (uploadImage or storeMedia), in order, and
\* whether the list given is one that processMediaUrls returned (again).
IdleCall ==
    [pc |-> "idle", svc |-> "none", input |-> <<>>, i |-> 0, out |-> <<>>,
     thrown |-> FALSE, log |-> <<>>, again |-> FALSE]

NewCall(svc, list, again) ==
    [pc |-> "loop", svc |-> svc, input |-> list, i |-> 0, out |-> <<>>,
     thrown |-> FALSE, log |-> <<>>, again |-> again]

\* A call made by the loop: its position in the list, the data URL passed,
\* whether it returned, what it returned and, of an upload, the data of the
\* provider's answer
LogEntry(kind, pos, arg, ok, result, data) ==
    [kind |-> kind, pos |-> pos, arg |-> arg, ok |-> ok, result |-> result,
     data |-> data]

\* Mutant of Push: unshift instead of push
PushFront(c, x) == [c EXCEPT !.i = @ + 1, !.out = <<x>> \o @]

\* optimizedUrls.push(x) at the end of one loop iteration
Push(c, x) == [c EXCEPT !.i = @ + 1, !.out = Append(@, x)]

\* Mutant of IsImageType: the test of media.type is left out
IsImageTypeAlways(media) == TRUE

\* media.type === 'image'
IsImageType(media) == media.type = "image"

\* Mutant of CloudAlreadyOptimized: the entry is rebuilt from type and url
CloudAlreadyOptimizedRebuilt(c, media) == Push(c, Media(media.type, media.url, <<>>))

\* else branch: "URL is already optimized"
CloudAlreadyOptimized(c, media) == Push(c, media)

\* "For videos, keep original for now"
CloudKeepVideo(c, media) == Push(c, media)

\* Mutant of CloudCatch: the exception leaves processMediaUrls
CloudCatchRethrow(c, media) == [c EXCEPT !.pc = "done", !.thrown = TRUE]

\* catch: "Keep original URL as fallback"
CloudCatch(c, media) == Push(c, media)

\* Mutant of CloudUploaded: the provider's delete link is stored as the url
CloudUploadedDeleteUrl(c, media, cloudResult) ==
    Push(c, Media(media.type, cloudResult.deleteUrl[1], cloudResult.thumbnailUrl))

\* The descriptor pushed after uploadImage returned cloudResult
CloudUploaded(c, media, cloudResult) ==
    Push(c, Media(media.type, cloudResult.url, cloudResult.thumbnailUrl))

\* One iteration of the loop of CloudMediaService.processMediaUrls
CloudProcessItem(c, key, resp) ==
    LET media == c.input[c.i + 1] IN
    IF StartsWithData(media.url)
    THEN IF IsImageType(media)
         THEN LET u == UploadImage(key, media.url, resp)
                  logged == [c EXCEPT !.log = Append(@,
                                LogEntry("upload", c.i + 1, media.url, ~u.threw, u.result,
                                         IF u.threw THEN NoData ELSE resp.data))]
              IN  IF u.threw
                  THEN CloudCatch(logged, media)
                  ELSE CloudUploaded(logged, media, u.result)
         ELSE CloudKeepVideo(c, media)
    ELSE CloudAlreadyOptimized(c, media)

(********************** local media storage service *************************)
\* generateMediaId draws 8 random bytes; the model draws from MediaIds
MediaIds == {"a1", "b2"}

\* mimeToExt is an object literal: mimeToExt[key] also finds the members it
\* inherits from Object.prototype, and the template literal of fileName
\* turns what it finds into text
InheritedText(key) ==
    CASE key = "constructor" -> "function Object() { [native code] }"
      [] key = "toString"    -> "function toString() { [native code] }"
      [] key = "__proto__"   -> "[object Object]"
InheritedKeys == {"constructor", "toString", "__proto__"}

\* getFileExtension: mimeToExt[mimeType] || 'bin'
GetFileExtension(mimeType) ==
    CASE mimeType = "image/jpeg"      -> "jpg"
      [] mimeType = "image/jpg"       -> "jpg"
      [] mimeType = "image/png"       -> "png"
      [] mimeType = "image/gif"       -> "gif"
      [] mimeType = "image/webp"      -> "webp"
      [] mimeType = "video/mp4"       -> "mp4"
      [] mimeType = "video/webm"      -> "webm"
      [] mimeType = "video/quicktime" -> "mov"
      [] mimeType \in InheritedKeys   -> InheritedText(mimeType)
      [] OTHER                        -> "bin"

\* `${mediaId}.${ext}`: the name storeMedia writes for an id and a MIME type
FileNameOf(mediaId, mimeType) == <<mediaId, GetFileExtension(mimeType)>>

\* The extensions findMediaFile probes, in its order
Extensions == <<"jpg", "jpeg", "png", "gif", "webp", "mp4", "webm", "mov">>

NoMediaFile ==
    [id |-> "", originalName |-> "", type |-> "", mimeType |-> "", size |-> 0,
     url |-> NoUrl, thumbnailUrl |-> <<>>]

\* Mutant of WriteFile: the id is left out of the path
WriteFileOneName(dir, name, buffer) ==
    [k \in DOMAIN dir \cup {<<"a1", name[2]>>} |->
        IF k = <<"a1", name[2]>> THEN buffer ELSE dir[k]]

\* Mutant of WriteFile: the directory is emptied before the write
WriteFileAlone(dir, name, buffer) == [k \in {name} |-> buffer]

\* writeFile(filePath, buffer) on directory dir
WriteFile(dir, name, buffer) ==
    [k \in DOMAIN dir \cup {name} |-> IF k = name THEN buffer ELSE dir[k]]

\* The model's directory holds MaxFiles files: a write that would add one
\* more fails as a full disk does.
HasRoom(dir, name) == name \in DOMAIN dir \/ Cardinality(DOMAIN dir) < MaxFiles

\* MediaStorageService.storeMedia with the id drawn and the outcome of the
\* write: [threw, dir, mediaFile]
StoreMedia(dir, dataUrl, originalName, mimeType, mediaId, writeOk) ==
    LET isImage  == IsImageMime(mimeType)
        isVideo  == IsVideoMime(mimeType)
        buffer   == Base64Decode(Base64Part(dataUrl))
        ext      == GetFileExtension(mimeType)
        fileName == <<mediaId, ext>>
    IN  IF ~(writeOk /\ HasRoom(dir, fileName))
        THEN [threw |-> TRUE, dir |-> dir, mediaFile |-> NoMediaFile]
        ELSE [threw |-> FALSE,
              dir |-> WriteFile(dir, fileName, buffer),
              mediaFile |->
                [id |-> mediaId,
                 originalName |-> originalName,
                 type |-> IF isImage THEN "image" ELSE "video",
                 mimeType |-> mimeType,
                 size |-> Len(buffer),
                 url |-> PlainUrl("/uploads/", <<mediaId, ".", ext>>),
                 thumbnailUrl |-> IF isVideo
                                  THEN <<PlainUrl("/uploads/",
                                            <<"thumbnails/", mediaId, "_thumb", ".", "jpg">>)>>
                                  ELSE <<>>]]

\* Mutant of FindMediaFile: only the image extensions are probed
FindMediaFileImages(dir, mediaId) ==
    LET Exists(ext) == <<mediaId, ext>> \in DOMAIN dir
    IN  SelectSeq(SubSeq(Extensions, 1, 5), Exists)

\* findMediaFile: the names <id>.<ext> that exist, in probe order
FindMediaFile(dir, mediaId) ==
    LET Exists(ext) == <<mediaId, ext>> \in DOMAIN dir
    IN  SelectSeq(Extensions, Exists)

\* getMedia: the bytes of the first match; null when nothing matches or
\* when readFile throws
GetMedia(dir, mediaId, readOk) ==
    LET found == FindMediaFile(dir, mediaId)
    IN  IF found = <<>> THEN <<>>
        ELSE IF readOk THEN <<dir[<<mediaId, found[1]>>]>>
        ELSE <<>>

\* The data-URL branch of the loop of MediaStorageService.processMediaUrls
LocalStoreItem(c, dir, mediaId, writeOk) ==
    LET media    == c.input[c.i + 1]
        mimeType == MimeOfDataUrl(media.url)
        s        == StoreMedia(dir, media.url, "upload", mimeType, mediaId, writeOk)
        logged   == [c EXCEPT !.log = Append(@,
                        LogEntry("write", c.i + 1, media.url, ~s.threw, s.mediaFile, NoData))]
    IN  IF s.threw
        THEN [call |-> Push(logged, media), dir |-> dir]
        ELSE [call |-> Push(logged, Media(s.mediaFile.type, s.mediaFile.url,
                                          s.mediaFile.thumbnailUrl)),
              dir |-> s.dir]

\* Mutant of LocalProcessItem: the test of the data-URL prefix is left out
LocalProcessItemNoTest(c, dir, mediaId, writeOk) ==
    LocalStoreItem(c, dir, mediaId, writeOk)

\* One iteration of the loop of MediaStorageService.processMediaUrls:
\* [call, dir]
LocalProcessItem(c, dir, mediaId, writeOk) ==
    LET media == c.input[c.i + 1] IN
    IF StartsWithData(media.url)
    THEN LocalStoreItem(c, dir, mediaId, writeOk)
    ELSE [call |-> Push(c, media), dir |-> dir]

(********************** GET /uploads/:filename *****************************)
\* A requested filename is modelled by filename.split('.'): <<"a1", "png">>
\* is "a1.png", <<"a1">> has no dot.

\* String.prototype.toLowerCase on the extensions requested
ToLowerCase(t) ==
    CASE t = "JPG" -> "jpg"
      [] t = "PNG" -> "png"
      [] OTHER     -> t

\* The handler's extension -> Content-Type table
ContentTypeOf(ext) ==
    CASE ext = "jpg"  -> "image/jpeg"
      [] ext = "jpeg" -> "image/jpeg"
      [] ext = "png"  -> "image/png"
      [] ext = "gif"  -> "image/gif"
      [] ext = "webp" -> "image/webp"
      [] ext = "mp4"  -> "video/mp4"
      [] ext = "webm" -> "video/webm"
      [] ext = "mov"  -> "video/quicktime"
      [] OTHER        -> "application/octet-stream"

\* The handler of GET /uploads/:filename: the response
ServeMedia(dir, filename, readOk) ==
    LET mediaId     == filename[1]
        mediaBuffer == GetMedia(dir, mediaId, readOk)
    IN  IF mediaBuffer = <<>>
        THEN [status |-> 404, contentType |-> "application/json",
              cacheControl |-> "", body |-> <<>>]
        ELSE [status |-> 200,
              contentType |-> ContentTypeOf(ToLowerCase(filename[Len(filename)])),
              cacheControl |-> "public, max-age=31536000",
              body |-> mediaBuffer]

(************************* operations **************************************)
NoStored == [done |-> FALSE, threw |-> FALSE, mimeType |-> "", buffer |-> <<>>,
             mediaFile |-> NoMediaFile]
NoGot    == [done |-> FALSE, mediaId |-> "", readOk |-> FALSE, buffer |-> <<>>]
NoServed == [done |-> FALSE, filename |-> <<>>, readOk |-> FALSE,
             response |-> [status |-> 0, contentType |-> "", cacheControl |-> "",
                           body |-> <<>>]]

\* Arguments of the direct calls of storeMedia: <<dataUrl, mimeType>>, the
\* last two of a MIME type outside the extension table
StoreArgs ==
    { <<DataUrl("image/png", B64a), "image/png">>,
      <<DataUrl("video/mp4", B64b), "video/mp4">>,
      <<DataUrl("image/jpeg", B64c), "image/jpeg">>,
      <<DataUrl("application/pdf", B64d), "application/pdf">>,
      <<DataUrl("image/bmp", B64d), "image/bmp">> }
LookupIds == MediaIds \cup {"zz"}
Filenames ==
    {<<id, ext>> : id \in LookupIds, ext \in {"png", "mp4"}}
        \cup {<<"a1">>, <<"a1", "PNG">>, <<"a1", "bin">>, <<"a1", "tar", "jpg">>}

\* cloudMedia.processMediaUrls(list) is called.  The cloud service neither
\* reads nor writes the uploads directory: its invocations are explored from
\* the empty directory only.
CloudStart ==
    /\ call.pc = "idle" /\ files = <<>>
    /\ \E list \in MediaLists : call' = NewCall("cloud", list, FALSE)
    /\ stored' = NoStored /\ got' = NoGot /\ served' = NoServed
    /\ UNCHANGED <<added, apiKey, files, reqs, posts>>

\* mediaStorage.processMediaUrls(list) is called
LocalStart ==
    /\ call.pc = "idle"
    /\ \E list \in MediaLists : call' = NewCall("local", list, FALSE)
    /\ stored' = NoStored /\ got' = NoGot /\ served' = NoServed
    /\ UNCHANGED <<added, apiKey, files, reqs, posts>>

\* One iteration of the cloud loop, the provider answering resp
CloudItem ==
    /\ call.pc = "loop" /\ call.svc = "cloud" /\ call.i < Len(call.input)
    /\ \E resp \in Responses : call' = CloudProcessItem(call, apiKey, resp)
    /\ UNCHANGED <<added, apiKey, files, stored, got, served, reqs, posts>>

\* One iteration of the local loop, with the id drawn and the write's outcome
LocalItem ==
    /\ call.pc = "loop" /\ call.svc = "local" /\ call.i < Len(call.input)
    /\ \E mediaId \in MediaIds, writeOk \in BOOLEAN :
          LET r == LocalProcessItem(call, files, mediaId, writeOk)
          IN  call' = r.call /\ files' = r.dir
    /\ UNCHANGED <<added, apiKey, stored, got, served, reqs, posts>>

\* return optimizedUrls
ProcessReturn ==
    /\ call.pc = "loop" /\ call.i = Len(call.input)
    /\ call' = [call EXCEPT !.pc = "done"]
    /\ UNCHANGED <<added, apiKey, files, stored, got, served, reqs, posts>>

\* The list returned is handed to the same processMediaUrls again
Reprocess ==
    /\ call.pc = "done" /\ ~call.thrown /\ ~call.again
    /\ call' = NewCall(call.svc, call.out, TRUE)
    /\ UNCHANGED <<added, apiKey, files, stored, got, served, reqs, posts>>

\* The caller is done with the list returned
ProcessEnd ==
    /\ call.pc = "done"
    /\ call' = IdleCall
    /\ UNCHANGED <<added, apiKey, files, stored, got, served, reqs, posts>>

\* mediaStorage.storeMedia(dataUrl, originalName, mimeType)
StoreMediaCall ==
    /\ call.pc = "idle"
    /\ \E args \in StoreArgs, mediaId \in MediaIds, writeOk \in BOOLEAN :
          LET dataUrl  == args[1]
              mimeType == args[2]
              s == StoreMedia(files, dataUrl, "upload", mimeType, mediaId, writeOk)
          IN  /\ files' = s.dir
              /\ stored' = [done |-> TRUE, threw |-> s.threw, mimeType |-> mimeType,
                            buffer |-> Base64Decode(Base64Part(dataUrl)),
                            mediaFile |-> s.mediaFile]
    /\ got' = NoGot /\ served' = NoServed
    /\ UNCHANGED <<added, apiKey, call, reqs, posts>>

\* mediaStorage.getMedia(mediaId)
GetMediaCall ==
    /\ call.pc = "idle"
    /\ \E mediaId \in LookupIds, readOk \in BOOLEAN :
          got' = [done |-> TRUE, mediaId |-> mediaId, readOk |-> readOk,
                  buffer |-> GetMedia(files, mediaId, readOk)]
    /\ served' = NoServed
    /\ UNCHANGED <<added, apiKey, files, call, stored, reqs, posts>>

\* GET /uploads/:filename
ServeUpload ==
    /\ call.pc = "idle"
    /\ \E filename \in Filenames, readOk \in BOOLEAN :
          served' = [done |-> TRUE, filename |-> filename, readOk |-> readOk,
                     response |-> ServeMedia(files, filename, readOk)]
    /\ got' = NoGot
    /\ UNCHANGED <<added, apiKey, files, call, stored, reqs, posts>>

(************************* POST /api/posts **********************************)
Requests == {"r1", "r2"}

NoResponse == [status |-> 0, post |-> 0]

IdleReq ==
    [pc |-> "idle", valid |-> FALSE, mediaUrls |-> <<>>, call |-> IdleCall,
     postData |-> <<>>, post |-> 0, res |-> NoResponse]

\* Request bodies: one that insertPostSchema rejects, one without mediaUrls
\* (<<>>), and ones with a media list (<<list>>)
PostLists ==
    { <<>>,
      <<Media("image", DataUrl("image/png", B64a), <<>>)>>,
      <<Media("video", DataUrl("video/mp4", B64b), <<DataUrl("video/mp4", B64b)>>),
        Media("image", DataUrl("image/png", B64a), <<>>)>>,
      <<Media("image", CdnUrl("x.png"), <<CdnUrl("x_thumb.png")>>),
        Media("image", DataUrl("image/png", B64b), <<>>)>> }

PostBodies ==
    {[valid |-> FALSE, mediaUrls |-> <<>>], [valid |-> TRUE, mediaUrls |-> <<>>]}
        \cup {[valid |-> TRUE, mediaUrls |-> <<list>>] : list \in PostLists}

\* The answers of the provider explored under POST /api/posts
PostResponses == {resp \in Responses : resp.net /\ (resp.ok = resp.success) /\ resp.data.thumb = <<>>}

\* Mutant of PostParse: the list is not handed to processMediaUrls
PostParseNoNormalize(q, body) ==
    IF ~body.valid
    THEN [q EXCEPT !.pc = "done", !.res = [status |-> 400, post |-> 0]]
    ELSE [q EXCEPT !.pc = "insert", !.valid = TRUE, !.mediaUrls = body.mediaUrls,
                   !.postData = IF body.mediaUrls = <<>> THEN <<>> ELSE body.mediaUrls[1]]

\* insertPostSchema.parse(req.body), then the test of postData.mediaUrls
PostParse(q, body) ==
    IF ~body.valid
    THEN [q EXCEPT !.pc = "done", !.res = [status |-> 400, post |-> 0]]
    ELSE IF body.mediaUrls # <<>> /\ Len(body.mediaUrls[1]) > 0
         THEN [q EXCEPT !.pc = "normalize", !.valid = TRUE, !.mediaUrls = body.mediaUrls,
                        !.call = NewCall("cloud", body.mediaUrls[1], FALSE)]
         ELSE [q EXCEPT !.pc = "insert", !.valid = TRUE, !.mediaUrls = body.mediaUrls,
                        !.postData = IF body.mediaUrls = <<>> THEN <<>> ELSE body.mediaUrls[1]]

\* Mutant of PostNormalized: the list returned is dropped
PostNormalizedGiven(q) ==
    [q EXCEPT !.pc = "insert", !.call.pc = "done", !.postData = q.call.input]

\* postData.mediaUrls = await cloudMedia.processMediaUrls(postData.mediaUrls)
PostNormalized(q) ==
    [q EXCEPT !.pc = "insert", !.call.pc = "done", !.postData = q.call.out]

\* storage.createPost(postData): the row, with what the request was given
\* and the uploads made for it, or the rejection of the insert
PostRow(q, id) ==
    [id |-> id, mediaUrls |-> q.postData,
     given |-> IF q.mediaUrls = <<>> THEN <<>> ELSE q.mediaUrls[1],
     log |-> q.call.log]

CreatePost(table, q, dbOk) ==
    IF dbOk /\ Len(table) < MaxPosts
    THEN [table |-> Append(table, PostRow(q, Len(table) + 1)),
          req |-> [q EXCEPT !.pc = "respond", !.post = Len(table) + 1]]
    ELSE [table |-> table,
          req |-> [q EXCEPT !.pc = "done", !.res = [status |-> 400, post |-> 0]]]

\* The handler receives a request
PostReceive(r) ==
    /\ reqs[r].pc = "idle"
    /\ \E body \in PostBodies : reqs' = [reqs EXCEPT ![r] = PostParse(@, body)]
    /\ UNCHANGED <<added, apiKey, files, call, stored, got, served, posts>>

\* One iteration of the loop of processMediaUrls, awaited by the handler
PostNormalizeItem(r) ==
    /\ reqs[r].pc = "normalize" /\ reqs[r].call.i < Len(reqs[r].call.input)
    /\ \E resp \in PostResponses :
          reqs' = [reqs EXCEPT ![r].call = CloudProcessItem(@, apiKey, resp)]
    /\ UNCHANGED <<added, apiKey, files, call, stored, got, served, posts>>

\* processMediaUrls returns to the handler
PostNormalizeReturn(r) ==
    /\ reqs[r].pc = "normalize" /\ reqs[r].call.i = Len(reqs[r].call.input)
    /\ reqs' = [reqs EXCEPT ![r] = PostNormalized(@)]
    /\ UNCHANGED <<added, apiKey, files, call, stored, got, served, posts>>

\* await storage.createPost(postData)
PostInsert(r) ==
    /\ reqs[r].pc = "insert"
    /\ \E dbOk \in BOOLEAN :
          LET c == CreatePost(posts, reqs[r], dbOk)
          IN  posts' = c.table /\ reqs' = [reqs EXCEPT ![r] = c.req]
    /\ UNCHANGED <<added, apiKey, files, call, stored, got, served>>

\* res.json(post)
PostRespond(r) ==
    /\ reqs[r].pc = "respond"
    /\ reqs' = [reqs EXCEPT ![r].pc = "done", ![r].res = [status |-> 200, post |-> reqs[r].post]]
    /\ UNCHANGED <<added, apiKey, files, call, stored, got, served, posts>>

\* The connection is closed; the next request may arrive
PostClose(r) ==
    /\ reqs[r].pc = "done"
    /\ reqs' = [reqs EXCEPT ![r] = IdleReq]
    /\ UNCHANGED <<added, apiKey, files, call, stored, got, served, posts>>

(************ cloud processMediaUrls, one await at a time *******************)
\* An invocation of cloudMedia.processMediaUrls followed through its awaits:
\* the loop (pc "loop"), an uploadImage call waiting for fetch (pc "fetch"),
\* the return (pc "done").  uploads lists the uploadImage calls the
\* invocation made, in the order it made them.
IdleJob == [pc |-> "idle", input |-> <<>>, i |-> 0, out |-> <<>>, uploads |-> <<>>]

NewJob(list) == [pc |-> "loop", input |-> list, i |-> 0, out |-> <<>>, uploads |-> <<>>]

\* An uploadImage call: the position of the entry it was made for, the data
\* URL passed, where the call stands ("fetching", "returned", "threw"),
\* whether it issued the HTTP request, the provider's answer once there is
\* one, and the descriptor returned
UploadCall(pos, arg, state, fetched, resp, result) ==
    [pos |-> pos, arg |-> arg, state |-> state, fetched |-> fetched,
     resp |-> resp, result |-> result]

\* uploadImage up to its first await: it throws when the key is absent,
\* else it issues the request and waits for fetch
UploadImageCalled(j, key) ==
    LET media   == j.input[j.i + 1]
        anyResp == CHOOSE r \in Responses : TRUE
        u       == UploadImage(key, media.url, anyResp)
    IN  IF ~u.fetched
        THEN CloudCatch([j EXCEPT !.uploads = Append(@,
                 UploadCall(j.i + 1, media.url, "threw", FALSE, <<>>, NoResult))], media)
        ELSE [j EXCEPT !.pc = "fetch",
                       !.uploads = Append(@,
                 UploadCall(j.i + 1, media.url, "fetching", TRUE, <<>>, NoResult))]

\* Mutant of UploadImageSettled: after a failure the loop calls uploadImage
\* for the same entry again
UploadImageSettledRetry(j, key, resp) ==
    LET media == j.input[j.i + 1]
        u     == UploadImage(key, media.url, resp)
        n     == Len(j.uploads)
        done  == [j EXCEPT !.pc = "loop",
                           !.uploads[n].state = IF u.threw THEN "threw" ELSE "returned",
                           !.uploads[n].resp = <<resp>>,
                           !.uploads[n].result = u.result]
    IN  IF u.threw THEN done ELSE CloudUploaded(done, media, u.result)

\* fetch settles with resp: uploadImage returns or throws, and the loop
\* pushes the new descriptor or, in its catch, the original one
UploadImageSettled(j, key, resp) ==
    LET media == j.input[j.i + 1]
        u     == UploadImage(key, media.url, resp)
        n     == Len(j.uploads)
        done  == [j EXCEPT !.pc = "loop",
                           !.uploads[n].state = IF u.threw THEN "threw" ELSE "returned",
                           !.uploads[n].resp = <<resp>>,
                           !.uploads[n].result = u.result]
    IN  IF u.threw THEN CloudCatch(done, media) ELSE CloudUploaded(done, media, u.result)

\* The entry the loop is at needs an upload
NeedsUpload(j) ==
    LET media == j.input[j.i + 1] IN StartsWithData(media.url) /\ IsImageType(media)

\* cloudMedia.processMediaUrls(list) is called
JobStart ==
    /\ job.pc = "idle"
    /\ \E list \in MediaLists : job' = NewJob(list)
    /\ UNCHANGED exceptJob

\* An iteration that makes no call: a video, or an entry already normalized
JobKeep ==
    /\ job.pc = "loop" /\ job.i < Len(job.input) /\ ~NeedsUpload(job)
    /\ LET media == job.input[job.i + 1]
       IN  job' = IF StartsWithData(media.url)
                  THEN CloudKeepVideo(job, media)
                  ELSE CloudAlreadyOptimized(job, media)
    /\ UNCHANGED exceptJob

\* await this.uploadImage(media.url): the call begins
JobUpload ==
    /\ job.pc = "loop" /\ job.i < Len(job.input) /\ NeedsUpload(job)
    /\ job' = UploadImageCalled(job, apiKey)
    /\ UNCHANGED exceptJob

\* The request comes to an end
JobSettle ==
    /\ job.pc = "fetch"
    /\ \E resp \in Responses : job' = UploadImageSettled(job, apiKey, resp)
    /\ UNCHANGED exceptJob

\* return optimizedUrls
JobReturn ==
    /\ job.pc = "loop" /\ job.i = Len(job.input)
    /\ job' = [job EXCEPT !.pc = "done"]
    /\ UNCHANGED exceptJob

\* The caller is done with the list
JobEnd ==
    /\ job.pc = "done"
    /\ job' = IdleJob
    /\ UNCHANGED exceptJob

(******************* client: MediaUpload component *************************)
\* A File of the picker: name, MIME type, size in bytes, content (as the
\* base64 text readAsDataURL gives) and, of an image, the dimensions it
\* decodes to.
File(name, type, size, b64, width, height) ==
    [name |-> name, type |-> type, size |-> size, b64 |-> b64,
     width |-> width, height |-> height]

\* const maxWidth = 800; const maxHeight = 800
maxWidth == 800
maxHeight == 800

\* file.size > 1024 * 1024
IsLarge(file) == file.size > 1024 * 1024

\* canvas.width = width, canvas.height = height after the scaling of
\* img.onload; the canvas keeps the integer part of what it is assigned
CanvasFor(img) ==
    IF img.width > img.height
    THEN IF img.width > maxWidth
         THEN [width |-> maxWidth, height |-> (img.height * maxWidth) \div img.width]
         ELSE [width |-> img.width, height |-> img.height]
    ELSE IF img.height > maxHeight
         THEN [width |-> (img.width * maxHeight) \div img.height, height |-> maxHeight]
         ELSE [width |-> img.width, height |-> img.height]

\* canvas.toDataURL(type, quality): the encoded bitmap, told apart here by
\* its dimensions; "data:," when the canvas has no pixels
ToDataURL(canvas, type) ==
    IF canvas.width = 0 \/ canvas.height = 0
    THEN DataUrl("", <<>>)
    ELSE DataUrl(type, <<canvas.width % 64, canvas.height % 64>>)

\* A MediaFile of the component; canvas is the canvas it was drawn on, if any
ClientMedia(type, url, thumb, file, canvas) ==
    [type |-> type, url |-> url, thumbnailUrl |-> thumb, file |-> file,
     canvas |-> canvas]

\* What decoding or reading a file comes to: the load event, the error
\* event, or an exception in the promise's executor
Outcomes == {"load", "error", "throw"}

\* processFile(file): [threw, value], value the MediaFile or null (<<>>)
ProcessFile(file, outcome) ==
    IF outcome = "throw" THEN [threw |-> TRUE, value |-> <<>>]
    ELSE IF outcome = "error" THEN [threw |-> FALSE, value |-> <<>>]
    ELSE IF IsImageMime(file.type) /\ IsLarge(file)
    THEN LET canvas == CanvasFor(file)
         IN  [threw |-> FALSE,
              value |-> <<ClientMedia("image", ToDataURL(canvas, "image/jpeg"), <<>>,
                                      file, <<canvas>>)>>]
    ELSE LET result == DataUrl(file.type, file.b64)
             type   == IF IsImageMime(file.type) THEN "image" ELSE "video"
         IN  [threw |-> FALSE,
              value |-> <<ClientMedia(type, result,
                                      IF type = "video" THEN <<result>> ELSE <<>>,
                                      file, <<>>)>>]

\* The files of the picker.  The accept attribute of the input is a hint to
\* the picker, which lets the user choose any file.
SmallImage == File("a.png", "image/png", 500000, B64a, 600, 400)
LargeImage == File("b.jpg", "image/jpeg", 2097152, B64b, 2000, 1000)
SomeVideo  == File("c.mp4", "video/mp4", 3000000, B64c, 0, 0)
SomePdf    == File("d.pdf", "application/pdf", 1000, B64d, 0, 0)

\* event.target.files of the selections explored
Picks ==
    { <<>>, <<SmallImage>>, <<SomePdf, SomeVideo>>, <<LargeImage, SmallImage>>,
      <<SomeVideo, LargeImage, SmallImage, SomePdf>> }

\* The component with its parent's selectedMedia: the running
\* handleFileSelect (pc "loop" between two files, "report" after the loop),
\* the selectedMedia its closure holds (captured), the files it has gone
\* through (k) with what became of each (trace), and the list it handed to
\* onMediaSelect (reported).
IdleUi ==
    [selectedMedia |-> <<>>, isUploading |-> FALSE, pc |-> "idle", files |-> <<>>,
     k |-> 0, captured |-> <<>>, newMediaFiles |-> <<>>, trace |-> <<>>,
     reported |-> <<>>]

\* disabled={isUploading || selectedMedia.length >= maxFiles}
ButtonDisabled(u) == u.isUploading \/ Len(u.selectedMedia) >= maxFiles

\* Mutant of LimitReached: one file too many is let through
LimitReachedLate(u) == Len(u.captured) + Len(u.newMediaFiles) > maxFiles

\* selectedMedia.length + newMediaFiles.length >= maxFiles
LimitReached(u) == Len(u.captured) + Len(u.newMediaFiles) >= maxFiles

\* handleFileSelect up to its loop
FilesSelected(u, picked) ==
    IF Len(picked) = 0 THEN u
    ELSE [u EXCEPT !.isUploading = TRUE, !.pc = "loop", !.files = picked, !.k = 0,
                   !.captured = u.selectedMedia, !.newMediaFiles = <<>>,
                   !.trace = <<>>, !.reported = <<>>]

\* Mutant of FileProcessed: a file that yields no entry ends the loop
FileProcessedStop(u, outcome) ==
    LET p == ProcessFile(u.files[u.k + 1], outcome)
        t == [u EXCEPT !.k = @ + 1, !.trace = Append(@, outcome)]
    IN  IF p.value # <<>>
        THEN [t EXCEPT !.newMediaFiles = Append(@, p.value[1])]
        ELSE [t EXCEPT !.pc = "report"]

\* The body of the loop for the file at k + 1: try { await processFile } catch
FileProcessed(u, outcome) ==
    LET p == ProcessFile(u.files[u.k + 1], outcome)
        t == [u EXCEPT !.k = @ + 1, !.trace = Append(@, outcome)]
    IN  IF p.threw THEN t
        ELSE IF p.value # <<>>
        THEN [t EXCEPT !.newMediaFiles = Append(@, p.value[1])]
        ELSE t

\* onMediaSelect([...selectedMedia, ...newMediaFiles]); setIsUploading(false)
Reported(u) ==
    LET list == u.captured \o u.newMediaFiles
    IN  [u EXCEPT !.selectedMedia = list, !.reported = <<list>>,
                  !.isUploading = FALSE, !.pc = "idle"]

\* selectedMedia.filter((_, i) => i !== index), index counted from 1 here
RemoveMedia(u, index) ==
    LET Kept(n) == IF n < index THEN u.selectedMedia[n] ELSE u.selectedMedia[n + 1]
    IN  [u EXCEPT !.selectedMedia = [n \in 1..(Len(u.selectedMedia) - 1) |-> Kept(n)]]

\* The user picks files in the dialog a button opened
UiSelect ==
    /\ ui.pc = "idle" /\ ~ButtonDisabled(ui)
    /\ \E picked \in Picks : ui' = FilesSelected(ui, picked)
    /\ UNCHANGED exceptUi

\* The loop takes the next file
UiProcess ==
    /\ ui.pc = "loop" /\ ui.k < Len(ui.files) /\ ~LimitReached(ui)
    /\ \E outcome \in Outcomes : ui' = FileProcessed(ui, outcome)
    /\ UNCHANGED exceptUi

\* The loop ends: no file is left, or the break
UiLoopEnd ==
    /\ ui.pc = "loop" /\ (ui.k = Len(ui.files) \/ LimitReached(ui))
    /\ ui' = [ui EXCEPT !.pc = "report"]
    /\ UNCHANGED exceptUi

\* The handler reports the selection
UiReport ==
    /\ ui.pc = "report"
    /\ ui' = Reported(ui)
    /\ UNCHANGED exceptUi

\* The user removes an entry, which the preview allows during an upload too
UiRemove ==
    /\ \E index \in 1..Len(ui.selectedMedia) : ui' = RemoveMedia(ui, index)
    /\ UNCHANGED exceptUi

(******************* client: processFile on one image ***********************)
\* The sizes in bytes and the decoded widths and heights of the images
\* processFile is applied to
ImageSizes == {1048575, 1024 * 1024, 1048577, 2 * 1024 * 1024}
ImageDims  == {1, 20, 400, 800, 801, 1000, 2000, 16001}

\* One application of processFile: the file and what the promise settled to
NoProbe == [pc |-> "none", file |-> File("", "", 0, <<>>, 0, 0), outcome |-> "",
            result |-> [threw |-> FALSE, value |-> <<>>]]

\* An image file is picked
ProbeChoose ==
    /\ probe.pc = "none"
    /\ \E size \in ImageSizes, width \in ImageDims, height \in ImageDims :
          probe' = [NoProbe EXCEPT !.pc = "chosen",
                        !.file = File("e.png", "image/png", size, B64a, width, height)]
    /\ UNCHANGED exceptProbe

\* processFile(file) settles
ProbeProcess ==
    /\ probe.pc = "chosen"
    /\ \E outcome \in Outcomes :
          probe' = [probe EXCEPT !.pc = "done", !.outcome = outcome,
                                 !.result = ProcessFile(probe.file, outcome)]
    /\ UNCHANGED exceptProbe

\* The next file
ProbeReset ==
    /\ probe.pc = "done"
    /\ probe' = NoProbe
    /\ UNCHANGED exceptProbe

(**************** POST /api/admin/send-announcement *************************)
\* buffer.toString('base64'): three bytes make four sextets; the '=' of the
\* padding is left out, as in the data URLs above
RECURSIVE Base64Encode(_)
Base64Encode(b) ==
    IF Len(b) = 0 THEN <<>>
    ELSE IF Len(b) = 1 THEN <<b[1] \div 4, (b[1] % 4) * 16>>
    ELSE IF Len(b) = 2
         THEN <<b[1] \div 4, (b[1] % 4) * 16 + (b[2] \div 16), (b[2] % 16) * 4>>
    ELSE <<b[1] \div 4, (b[1] % 4) * 16 + (b[2] \div 16),
           (b[2] % 16) * 4 + (b[3] \div 64), b[3] % 64>>
             \o Base64Encode(SubSeq(b, 4, Len(b)))

\* An Express.Multer.File; the fileFilter of multer lets image/* and video/*
\* through
Attachment(originalname, mimetype, buffer) ==
    [originalname |-> originalname, mimetype |-> mimetype, buffer |-> buffer]

Picture == Attachment("p.png", "image/png", <<0, 0, 0>>)
Clip    == Attachment("v.mp4", "video/mp4", <<65, 66>>)

\* `data:${file.mimetype};base64,${file.buffer.toString('base64')}`
DataUrlOf(file) == DataUrl(file.mimetype, Base64Encode(file.buffer))

\* CloudMediaService.uploadVideo: it throws, whatever it is given
UploadVideo(dataUrl) == [threw |-> TRUE, fetched |-> FALSE, result |-> NoResult]

\* The users of the application, as getAllUsers(0) lists them
AllUsers == <<1, 2>>

\* Request bodies: title and message present or not, the files, and the
\* recipients: 'all', or 'specific' with the ids that userIds parses to
AnnBodies ==
    [ complete   : BOOLEAN,
      files      : {<<>>, <<Picture>>, <<Clip>>, <<Picture, Clip>>, <<Clip, Picture>>},
      recipients : {"all", "specific"},
      userIds    : {<<>>, <<2>>} ]

\* The handler: where it stands, the body, the loop over the files (k done,
\* mediaUrls built, failed the positions whose upload threw), the target
\* users, the createNotification calls made (notified) and the response
IdleAnn ==
    [pc |-> "idle", body |-> [complete |-> FALSE, files |-> <<>>, recipients |-> "",
                              userIds |-> <<>>],
     k |-> 0, mediaUrls |-> <<>>, failed |-> <<>>, usersThrew |-> FALSE,
     targetUserIds |-> <<>>, n |-> 0, notified |-> <<>>, notificationCount |-> 0,
     res |-> [status |-> 0, recipientCount |-> 0]]

\* if (!title || !message) return res.status(400)
AnnReceived(body) ==
    IF ~body.complete
    THEN [IdleAnn EXCEPT !.pc = "done", !.body = body, !.res.status = 400]
    ELSE [IdleAnn EXCEPT !.pc = "media", !.body = body]

\* The body of the loop over the files: the data URL, uploadImage or
\* uploadVideo, the push of the result; the catch logs and pushes nothing
AnnFileUploaded(a, key, resp) ==
    LET file    == a.body.files[a.k + 1]
        dataUrl == DataUrlOf(file)
        isImage == IsImageMime(file.mimetype)
        u       == IF isImage THEN UploadImage(key, dataUrl, resp) ELSE UploadVideo(dataUrl)
        next    == [a EXCEPT !.k = @ + 1]
    IN  IF u.threw
        THEN [next EXCEPT !.failed = Append(@, a.k + 1)]
        ELSE [next EXCEPT !.mediaUrls = Append(@, Media(IF isImage THEN "image" ELSE "video",
                                                        u.result.url, u.result.thumbnailUrl))]

\* The target users, and the 400 when there is none; getAllUsers may throw,
\* which the outer catch answers with 500
AnnTargeted(a, usersOk) ==
    LET targetUserIds == IF a.body.recipients = "all" THEN AllUsers
                         ELSE IF a.body.recipients = "specific" /\ a.body.userIds # <<>>
                         THEN a.body.userIds
                         ELSE <<>>
    IN  IF a.body.recipients = "all" /\ ~usersOk
        THEN [a EXCEPT !.pc = "done", !.usersThrew = TRUE, !.res.status = 500]
        ELSE IF Len(targetUserIds) = 0
        THEN [a EXCEPT !.pc = "done", !.res.status = 400]
        ELSE [a EXCEPT !.pc = "notify", !.targetUserIds = targetUserIds]

\* createNotification for the next user, with data.mediaUrls the list built
\* or undefined (<<>>) when it is empty; a failure is caught and logged
AnnNotified(a, dbOk) ==
    LET userId == a.targetUserIds[a.n + 1]
        data   == IF Len(a.mediaUrls) > 0 THEN <<a.mediaUrls>> ELSE <<>>
    IN  [a EXCEPT !.n = @ + 1,
                  !.notified = Append(@, [userId |-> userId, ok |-> dbOk, mediaUrls |-> data]),
                  !.notificationCount = IF dbOk THEN @ + 1 ELSE @]

\* The request arrives
AnnReceive ==
    /\ ann.pc = "idle"
    /\ \E body \in AnnBodies : ann' = AnnReceived(body)
    /\ UNCHANGED exceptAnn

\* One file of the request is uploaded, or fails to be
AnnUpload ==
    /\ ann.pc = "media" /\ ann.k < Len(ann.body.files)
    /\ \E resp \in Responses : ann' = AnnFileUploaded(ann, apiKey, resp)
    /\ UNCHANGED exceptAnn

\* The loop over the files is over: the target users are determined
AnnTargets ==
    /\ ann.pc = "media" /\ ann.k = Len(ann.body.files)
    /\ \E usersOk \in BOOLEAN : ann' = AnnTargeted(ann, usersOk)
    /\ UNCHANGED exceptAnn

\* One notification is written, or fails to be
AnnNotify ==
    /\ ann.pc = "notify" /\ ann.n < Len(ann.targetUserIds)
    /\ \E dbOk \in BOOLEAN : ann' = AnnNotified(ann, dbOk)
    /\ UNCHANGED exceptAnn

\* res.json({message, recipientCount})
AnnRespond ==
    /\ ann.pc = "notify" /\ ann.n = Len(ann.targetUserIds)
    /\ ann' = [ann EXCEPT !.pc = "done",
                          !.res = [status |-> 200, recipientCount |-> ann.notificationCount]]
    /\ UNCHANGED exceptAnn

\* The connection is closed; the next request may arrive
AnnClose ==
    /\ ann.pc = "done"
    /\ ann' = IdleAnn
    /\ UNCHANGED exceptAnn

(************ local storage: construction and concurrent storeMedia *********)
\* The callers of storeMedia that may run at the same time: route handlers,
\* or the loop of processMediaUrls, which passes (media.url, 'upload', the
\* MIME type of the data URL)
Callers == {"s1", "s2"}

\* <<dataUrl, mimeType>> of the calls: two images of one type and a video
DiskArgs ==
    { <<DataUrl("image/png", B64a), "image/png">>,
      <<DataUrl("image/png", B64b), "image/png">>,
      <<DataUrl("video/mp4", B64b), "video/mp4">> }

\* A storeMedia call: idle, waiting for writeFile ("writing"), returned or
\* rejected; the id it drew; whether the uploads directory was absent when
\* it was called; the descriptor it returned
IdleStore ==
    [pc |-> "idle", args |-> <<>>, mediaId |-> "", absentAtCall |-> FALSE,
     mediaFile |-> NoMediaFile]

\* The service: its construction (pc "new" before the constructor, then
\* waiting for mkdir of uploads or of uploads/thumbnails, then "ready"),
\* which directories exist, whether a failure was logged, the content of
\* the uploads directory, the calls in flight, and what the last read of the
\* directory came to
NewDisk ==
    [pc |-> "new", uploadsDir |-> FALSE, thumbnailsDir |-> FALSE, logged |-> FALSE,
     dir |-> <<>>, stores |-> [c \in Callers |-> IdleStore], last |-> ""]

\* ensureDirectories from a test of existsSync on: the await of the first
\* mkdir needed, or the end
EnsureFrom(d) ==
    IF ~d.uploadsDir THEN [d EXCEPT !.pc = "mkdirUploads"]
    ELSE IF ~d.thumbnailsDir THEN [d EXCEPT !.pc = "mkdirThumbnails"]
    ELSE [d EXCEPT !.pc = "ready"]

\* constructor: ensureDirectories() is called and not awaited; uploads may be
\* there from an earlier run of the server, and thumbnails with it
Constructed(d, uploadsThere, thumbnailsThere) ==
    EnsureFrom([d EXCEPT !.uploadsDir = uploadsThere,
                         !.thumbnailsDir = uploadsThere /\ thumbnailsThere])

\* mkdir settles: the next test of existsSync, or the catch that logs
MkdirSettled(d, ok) ==
    IF ~ok THEN [d EXCEPT !.pc = "ready", !.logged = TRUE]
    ELSE IF d.pc = "mkdirUploads" THEN EnsureFrom([d EXCEPT !.uploadsDir = TRUE])
    ELSE EnsureFrom([d EXCEPT !.thumbnailsDir = TRUE])

\* storeMedia up to await writeFile: the id is drawn, the write is issued
StoreBegun(d, c, args, mediaId) ==
    [d EXCEPT !.stores[c] = [IdleStore EXCEPT !.pc = "writing", !.args = args,
                                              !.mediaId = mediaId,
                                              !.absentAtCall = ~d.uploadsDir]]

\* Mutant of StoreSettled: the write does not need the uploads directory
StoreSettledAnywhere(d, c, writeOk) ==
    LET st == d.stores[c]
        s  == StoreMedia(d.dir, st.args[1], "upload", st.args[2], st.mediaId, writeOk)
    IN  [d EXCEPT !.dir = s.dir,
                  !.stores[c].pc = IF s.threw THEN "rejected" ELSE "returned",
                  !.stores[c].mediaFile = s.mediaFile]

\* writeFile settles and storeMedia returns or rejects; the write fails when
\* the uploads directory is absent
StoreSettled(d, c, writeOk) ==
    LET st == d.stores[c]
        s  == StoreMedia(d.dir, st.args[1], "upload", st.args[2], st.mediaId,
                         writeOk /\ d.uploadsDir)
    IN  [d EXCEPT !.dir = s.dir,
                  !.stores[c].pc = IF s.threw THEN "rejected" ELSE "returned",
                  !.stores[c].mediaFile = s.mediaFile]

\* new MediaStorageService()
DiskConstruct ==
    /\ disk.pc = "new"
    /\ \E uploadsThere, thumbnailsThere \in BOOLEAN :
          disk' = Constructed(disk, uploadsThere, thumbnailsThere)
    /\ UNCHANGED exceptDisk

\* A pending mkdir comes to an end
DiskMkdir ==
    /\ disk.pc \in {"mkdirUploads", "mkdirThumbnails"}
    /\ \E ok \in BOOLEAN : disk' = MkdirSettled(disk, ok)
    /\ UNCHANGED exceptDisk

\* mediaStorage.storeMedia(...) is called on the service constructed
DiskStoreBegin(c) ==
    /\ disk.pc # "new" /\ disk.stores[c].pc = "idle"
    /\ \E args \in DiskArgs, mediaId \in MediaIds :
          disk' = [StoreBegun(disk, c, args, mediaId) EXCEPT !.last = ""]
    /\ UNCHANGED exceptDisk

\* The write of a call comes to an end
DiskStoreSettle(c) ==
    /\ disk.stores[c].pc = "writing"
    /\ \E writeOk \in BOOLEAN : disk' = StoreSettled(disk, c, writeOk)
    /\ UNCHANGED exceptDisk

\* The caller has its descriptor or its exception
DiskStoreEnd(c) ==
    /\ disk.stores[c].pc \in {"returned", "rejected"}
    /\ disk' = [disk EXCEPT !.stores[c] = IdleStore]
    /\ UNCHANGED exceptDisk

\* No storeMedia call is in flight.  A read touches the directory alone,
\* which a call changes in its write step only: the reads are explored
\* between the calls, where they meet every content the directory takes.
Quiet(d) == \A c \in Callers : d.stores[c].pc = "idle"

\* mediaStorage.getMedia(mediaId): the directory is read
DiskGetMedia ==
    /\ disk.pc # "new" /\ Quiet(disk)
    /\ \E mediaId \in LookupIds, readOk \in BOOLEAN :
          disk' = [disk EXCEPT !.last =
                      IF GetMedia(disk.dir, mediaId, readOk) = <<>> THEN "getMedia: null"
                      ELSE "getMedia: buffer"]
    /\ UNCHANGED exceptDisk

\* GET /uploads/:filename: the directory is read
DiskServe ==
    /\ disk.pc # "new" /\ Quiet(disk)
    /\ \E filename \in Filenames, readOk \in BOOLEAN :
          disk' = [disk EXCEPT !.last =
                      IF ServeMedia(disk.dir, filename, readOk).status = 404 THEN "GET: 404"
                      ELSE "GET: 200"]
    /\ UNCHANGED exceptDisk

(************* local storage: storeMedia on every kind of MIME type *********)
\* mimeType arguments: the keys of the table, types outside it (image, video
\* and neither), and names Object.prototype has; processMediaUrls passes
\* whatever precedes the first ';' of the data URL (lines 145-149)
MimeTypes ==
    {"image/jpeg", "image/jpg", "image/png", "image/gif", "image/webp",
     "video/mp4", "video/webm", "video/quicktime",
     "image/bmp", "video/x-msvideo", "application/pdf"} \cup InheritedKeys

\* base64 payloads of the data URLs
Payloads == {B64a, B64b, B64c, B64d}

\* The uploads directory before the call: empty, or holding one file
DirsBefore == {<<>>, WriteFile(<<>>, <<"a1", "png">>, <<65>>)}

NoTrial ==
    [pc |-> "none", before |-> <<>>, mimeType |-> "", dataUrl |-> NoUrl,
     mediaId |-> "", threw |-> FALSE, dir |-> <<>>, mediaFile |-> NoMediaFile]

\* mediaStorage.storeMedia(dataUrl, 'upload', mimeType) from call to return
TrialStore ==
    /\ trial.pc = "none"
    /\ \E before \in DirsBefore, mimeType \in MimeTypes, b64 \in Payloads,
          mediaId \in MediaIds, writeOk \in BOOLEAN :
          LET dataUrl == DataUrl(mimeType, b64)
              s == StoreMedia(before, dataUrl, "upload", mimeType, mediaId, writeOk)
          IN  trial' = [pc |-> "settled", before |-> before, mimeType |-> mimeType,
                        dataUrl |-> dataUrl, mediaId |-> mediaId, threw |-> s.threw,
                        dir |-> s.dir, mediaFile |-> s.mediaFile]
    /\ UNCHANGED exceptTrial

\* the caller takes the result
TrialEnd ==
    /\ trial.pc = "settled"
    /\ trial' = NoTrial
    /\ UNCHANGED exceptTrial


(**************** POST /api/admin/optimize-media ***************************)
\* A URL whose text holds apostrophes (each "'" token is one character)
QuotedUrl(tokens) == PlainUrl("https://", <<"cdn.example/">> \o tokens)

\* media_urls of the rows of the posts table: none, plain, data URLs, and
\* lists whose plain entry holds an apostrophe or two adjacent ones
OptLists ==
    { <<>>,
      <<Media("image", CdnUrl("x.png"), <<CdnUrl("x_thumb.png")>>)>>,
      <<Media("image", DataUrl("image/png", B64a), <<>>)>>,
      <<Media("video", DataUrl("video/mp4", B64b), <<DataUrl("video/mp4", B64b)>>)>>,
      <<Media("image", CdnUrl("x.png"), <<>>), Media("image", DataUrl("image/png", B64b), <<>>)>>,
      <<Media("image", DataUrl("image/png", B64a), <<>>),
        Media("image", QuotedUrl(<<"it", "'", "s.png">>), <<>>)>>,
      <<Media("image", DataUrl("image/png", B64a), <<>>),
        Media("image", QuotedUrl(<<"it", "'", "'", "s.png">>), <<>>)>> }

\* The posts table: media_urls by post id
OptTables == [1..MaxPosts -> OptLists]

\* some(media => media.url && media.url.startsWith('data:'))
HasDataUrls(mediaUrls) == \E i \in 1..Len(mediaUrls) : StartsWithData(mediaUrls[i].url)

\* SELECT id, media_urls FROM posts WHERE media_urls IS NOT NULL AND
\* jsonb_array_length(media_urls) > 0
RECURSIVE SelectRows(_, _)
SelectRows(table, id) ==
    IF id > MaxPosts THEN <<>>
    ELSE (IF Len(table[id]) > 0 THEN <<[id |-> id, media_urls |-> table[id]]>> ELSE <<>>)
            \o SelectRows(table, id + 1)

\* cloudMedia.processMediaUrls(list) from call to return, the provider
\* answering the uploads with resps (one answer per position)
RECURSIVE ProcessMediaUrls(_, _, _)
ProcessMediaUrls(c, key, resps) ==
    IF c.i = Len(c.input) THEN c.out
    ELSE ProcessMediaUrls(CloudProcessItem(c, key, resps[c.i + 1]), key, resps)

\* The text between the quotes of '${JSON.stringify(optimizedUrls)}' as the
\* database reads it: two adjacent apostrophes stand for one, a single one
\* ends the literal and what follows it is no valid statement
RECURSIVE ReadLiteral(_)
ReadLiteral(tokens) ==
    IF tokens = <<>> THEN [ok |-> TRUE, text |-> <<>>]
    ELSE IF Head(tokens) # "'"
         THEN LET r == ReadLiteral(Tail(tokens))
              IN  [ok |-> r.ok, text |-> <<Head(tokens)>> \o r.text]
         ELSE IF Len(tokens) >= 2 /\ tokens[2] = "'"
              THEN LET r == ReadLiteral(Tail(Tail(tokens)))
                   IN  [ok |-> r.ok, text |-> <<"'">> \o r.text]
              ELSE [ok |-> FALSE, text |-> <<>>]

\* One url of the list inside the literal
ReadUrl(url) ==
    LET r == ReadLiteral(url.path)
    IN  [ok |-> r.ok, url |-> [url EXCEPT !.path = r.text]]

\* UPDATE posts SET media_urls = '<json>' WHERE id = <id>: [ok, table]
UpdateMediaUrls(table, id, list, dbOk) ==
    LET read == [i \in 1..Len(list) |->
                    [ok |-> ReadUrl(list[i].url).ok
                              /\ \A j \in 1..Len(list[i].thumbnailUrl) :
                                    ReadUrl(list[i].thumbnailUrl[j]).ok,
                     media |-> Media(list[i].type, ReadUrl(list[i].url).url,
                                     [j \in 1..Len(list[i].thumbnailUrl) |->
                                        ReadUrl(list[i].thumbnailUrl[j]).url])]]
        wellFormed == \A i \in 1..Len(list) : read[i].ok
    IN  IF dbOk /\ wellFormed
        THEN [ok |-> TRUE,
              table |-> [table EXCEPT ![id] = [i \in 1..Len(list) |-> read[i].media]]]
        ELSE [ok |-> FALSE, table |-> table]

\* The handler: the posts table, the table as the scan saw it, whether the
\* database failed, the rows selected, the loop's position (k rows done),
\* the list processMediaUrls returned for the current row, optimizedCount,
\* the ids whose UPDATE was executed, and the response
IdleOpt ==
    [pc |-> "idle", table |-> <<>>, scanned |-> <<>>, dbDown |-> FALSE, rows |-> <<>>,
     k |-> 0, optimizedUrls |-> <<>>, optimizedCount |-> 0, updated |-> {},
     status |-> 0, reported |-> 0]

\* await storage.executeSqlQuery("SELECT ...") settles
OptScanned(table, dbOk) ==
    IF dbOk
    THEN [IdleOpt EXCEPT !.pc = "loop", !.table = table, !.scanned = table,
                         !.rows = SelectRows(table, 1)]
    ELSE [IdleOpt EXCEPT !.pc = "responded", !.table = table, !.scanned = table,
                         !.dbDown = TRUE, !.status = 500]

\* hasDataUrls is false: the next row
OptSkipped(o) == [o EXCEPT !.k = @ + 1]

\* await cloudMedia.processMediaUrls(mediaUrls) returns
OptProcessed(o, key, resps) ==
    LET post == o.rows[o.k + 1]
    IN  [o EXCEPT !.pc = "update",
                  !.optimizedUrls =
                      ProcessMediaUrls(NewCall("cloud", post.media_urls, FALSE), key, resps)]

\* await storage.executeSqlQuery(`UPDATE ...`) settles; optimizedCount++
OptUpdated(o, dbOk) ==
    LET post == o.rows[o.k + 1]
        u == UpdateMediaUrls(o.table, post.id, o.optimizedUrls, dbOk)
    IN  IF u.ok
        THEN [o EXCEPT !.pc = "loop", !.table = u.table, !.k = @ + 1,
                       !.optimizedUrls = <<>>, !.optimizedCount = @ + 1,
                       !.updated = @ \cup {post.id}]
        ELSE [o EXCEPT !.pc = "responded", !.dbDown = @ \/ ~dbOk, !.status = 500]

\* res.json({message, optimizedCount})
OptResponded(o) ==
    [o EXCEPT !.pc = "responded", !.status = 200, !.reported = o.optimizedCount]

OptScan ==
    /\ opt.pc = "idle"
    /\ \E table \in OptTables, dbOk \in BOOLEAN : opt' = OptScanned(table, dbOk)
    /\ UNCHANGED exceptOpt

OptSkip ==
    /\ opt.pc = "loop" /\ opt.k < Len(opt.rows)
    /\ ~HasDataUrls(opt.rows[opt.k + 1].media_urls)
    /\ opt' = OptSkipped(opt)
    /\ UNCHANGED exceptOpt

OptProcess ==
    /\ opt.pc = "loop" /\ opt.k < Len(opt.rows)
    /\ HasDataUrls(opt.rows[opt.k + 1].media_urls)
    /\ \E resps \in [1..Len(opt.rows[opt.k + 1].media_urls) -> PostResponses] :
          opt' = OptProcessed(opt, apiKey, resps)
    /\ UNCHANGED exceptOpt

OptUpdate ==
    /\ opt.pc = "update"
    /\ \E dbOk \in BOOLEAN : opt' = OptUpdated(opt, dbOk)
    /\ UNCHANGED exceptOpt

OptRespond ==
    /\ opt.pc = "loop" /\ opt.k = Len(opt.rows)
    /\ opt' = OptResponded(opt)
    /\ UNCHANGED exceptOpt

\* the response is sent; the next request
OptClose ==
    /\ opt.pc = "responded"
    /\ opt' = IdleOpt
    /\ UNCHANGED exceptOpt


(************* NotificationService.generatePostSuggestions *****************)
\* The public posts, most recent first (the order of getPosts): a post is
\* [id, userId]; the ids follow the order of creation
FeedOf(authors) ==
    [i \in 1..Len(authors) |-> [id |-> Len(authors) + 1 - i, userId |-> authors[i]]]
Feeds == {FeedOf(authors) : authors \in SeqsUpTo({1, 2}, MaxPosts)}

\* storage.getPosts(limit, 0): the first limit posts of the feed
GetPosts(feed, limit) ==
    [i \in 1..(IF Len(feed) < limit THEN Len(feed) ELSE limit) |-> feed[i]]

\* allPosts.filter(post => post.userId !== user.id)
RECURSIVE OtherUsersPosts(_, _)
OtherUsersPosts(allPosts, userId) ==
    IF allPosts = <<>> THEN <<>>
    ELSE (IF Head(allPosts).userId # userId THEN <<Head(allPosts)>> ELSE <<>>)
            \o OtherUsersPosts(Tail(allPosts), userId)

\* The orders sort(() => 0.5 - Math.random()) can leave the list in
Shuffles(list) ==
    {s \in [1..Len(list) -> {list[i] : i \in 1..Len(list)}] :
        \A i \in 1..Len(list) : \E j \in 1..Len(list) : s[j] = list[i]}

\* shuffled.slice(0, suggestionsCount)
Slice(list, n) == [i \in 1..(IF Len(list) < n THEN Len(list) ELSE n) |-> list[i]]

\* The run: the feed, the users and posts read, the loop's position (u users
\* done), the posts selected for the current user and how many of them are
\* done, the notifications created, and whether a database call failed
IdleSug ==
    [pc |-> "idle", feed |-> <<>>, allUsers |-> <<>>, allPosts |-> <<>>, u |-> 0,
     selectedPosts |-> <<>>, s |-> 0, notifications |-> <<>>, failed |-> FALSE]

\* getAllUsers(0) and getPosts(20, 0) settle; the test of allPosts.length
SugStarted(feed, dbOk) ==
    IF ~dbOk THEN [IdleSug EXCEPT !.pc = "done", !.feed = feed, !.failed = TRUE]
    ELSE [IdleSug EXCEPT !.pc = IF GetPosts(feed, 20) = <<>> THEN "done" ELSE "users",
                         !.feed = feed, !.allUsers = AllUsers,
                         !.allPosts = GetPosts(feed, 20)]

\* One user of the loop: filter, count, shuffle and slice
SugSelected(g, suggestionsCount, shuffled) ==
    [g EXCEPT !.pc = "posts", !.selectedPosts = Slice(shuffled, suggestionsCount),
              !.s = 0]

\* getPosts(1, 0), then find(p => p.id === suggestedPostId): the posts found
SuggestedPost(g, suggestedPostId) ==
    LET suggestedPost == GetPosts(g.feed, 1)
    IN  {p \in {suggestedPost[i] : i \in 1..Len(suggestedPost)} : p.id = suggestedPostId}

\* createPostSuggestionNotification(user.id, post.id) from call to return
SugNotified(g, dbOk) ==
    LET userId == g.allUsers[g.u + 1]
        suggestedPostId == g.selectedPosts[g.s + 1].id
    IN  IF ~dbOk THEN [g EXCEPT !.pc = "done", !.failed = TRUE]
        ELSE IF SuggestedPost(g, suggestedPostId) = {}
             THEN [g EXCEPT !.s = @ + 1]
             ELSE [g EXCEPT !.s = @ + 1,
                            !.notifications =
                                Append(@, [userId |-> userId, type |-> "suggestion",
                                           suggestionPostId |-> suggestedPostId])]

SugStart ==
    /\ sug.pc = "idle"
    /\ \E feed \in Feeds, dbOk \in BOOLEAN : sug' = SugStarted(feed, dbOk)
    /\ UNCHANGED exceptSug

\* otherUsersPosts.length === 0: continue
SugContinue ==
    /\ sug.pc = "users" /\ sug.u < Len(sug.allUsers)
    /\ OtherUsersPosts(sug.allPosts, sug.allUsers[sug.u + 1]) = <<>>
    /\ sug' = [sug EXCEPT !.u = @ + 1]
    /\ UNCHANGED exceptSug

SugSelect ==
    /\ sug.pc = "users" /\ sug.u < Len(sug.allUsers)
    /\ OtherUsersPosts(sug.allPosts, sug.allUsers[sug.u + 1]) # <<>>
    /\ \E suggestionsCount \in {1, 2},
          shuffled \in Shuffles(OtherUsersPosts(sug.allPosts, sug.allUsers[sug.u + 1])) :
          sug' = SugSelected(sug, suggestionsCount, shuffled)
    /\ UNCHANGED exceptSug

SugNotify ==
    /\ sug.pc = "posts" /\ sug.s < Len(sug.selectedPosts)
    /\ \E dbOk \in BOOLEAN : sug' = SugNotified(sug, dbOk)
    /\ UNCHANGED exceptSug

\* the inner loop ends: the next user
SugNextUser ==
    /\ sug.pc = "posts" /\ sug.s = Len(sug.selectedPosts)
    /\ sug' = [sug EXCEPT !.pc = "users", !.u = @ + 1, !.selectedPosts = <<>>, !.s = 0]
    /\ UNCHANGED exceptSug

\* the outer loop ends
SugReturn ==
    /\ sug.pc = "users" /\ sug.u = Len(sug.allUsers)
    /\ sug' = [sug EXCEPT !.pc = "done"]
    /\ UNCHANGED exceptSug

\* the caller continues
SugEnd ==
    /\ sug.pc = "done"
    /\ sug' = IdleSug
    /\ UNCHANGED exceptSug


(*********** POST and DELETE /api/posts/:id/like, await by await ***********)
\* The posts and users of this part: post 1 by user 1 and, more recent,
\* post 2 by user 2, both public
LikeFeed == FeedOf(<<2, 1>>)
LikePostIds == {1, 2}
LikeUserIds == {1, 2}
OwnerOf(postId) == CHOOSE u \in LikeUserIds : \E i \in 1..Len(LikeFeed) :
                       LikeFeed[i].id = postId /\ LikeFeed[i].userId = u

\* Requests in flight at once
LikeCallers == {"l1", "l2"}

\* One request or call: the route (or likePost), its parameters, the rows likePost counted, the
\* response, and what the request has done to the tables (a like row
\* inserted, notifications created)
IdleLike ==
    [pc |-> "idle", op |-> "", postId |-> 0, userId |-> 0, likesCount |-> 0,
     status |-> 0, inserted |-> FALSE, created |-> 0]

\* The tables: post_likes as the number of rows per (post_id, user_id),
\* posts.likes_count, notifications; and the requests
NoLikes ==
    [rows |-> [p \in LikePostIds \X LikeUserIds |-> 0],
     likesCount |-> [p \in LikePostIds |-> 0],
     notifications |-> <<>>,
     reqs |-> [c \in LikeCallers |-> IdleLike]]

\* select().from(postLikes).where(eq(postLikes.postId, postId)): its length
RowsOfPost(l, postId) ==
    l.rows[<<postId, 1>>] + l.rows[<<postId, 2>>]

\* likePost: the select of existingLike settles; 'Already liked' is answered
\* with 400 by the route
LikeChecked(l, c) ==
    LET q == l.reqs[c]
    IN  IF l.rows[<<q.postId, q.userId>>] > 0
        THEN [l EXCEPT !.reqs[c].pc = "done", !.reqs[c].status = 400]
        ELSE [l EXCEPT !.reqs[c].pc = "insert"]

\* likePost: insert(postLikes).values({postId, userId}) settles
LikeInserted(l, c) ==
    LET q == l.reqs[c]
    IN  [l EXCEPT !.rows[<<q.postId, q.userId>>] = @ + 1,
                  !.reqs[c].pc = "count", !.reqs[c].inserted = TRUE]

\* unlikePost: delete(postLikes).where(postId and userId) settles
UnlikeDeleted(l, c) ==
    LET q == l.reqs[c]
    IN  [l EXCEPT !.rows[<<q.postId, q.userId>>] = 0, !.reqs[c].pc = "count"]

\* likePost and unlikePost: the select of likesCount settles
LikesCounted(l, c) ==
    [l EXCEPT !.reqs[c].likesCount = RowsOfPost(l, l.reqs[c].postId),
              !.reqs[c].pc = "update"]

\* Mutant of LikesUpdated: the count is incremented, not set
LikesUpdatedIncrement(l, c) ==
    LET q == l.reqs[c]
    IN  [l EXCEPT !.likesCount[q.postId] = @ + 1,
                  !.reqs[c].pc = IF q.op = "like" THEN "notify" ELSE "done",
                  !.reqs[c].status = IF q.op = "unlike" THEN 200 ELSE 0]

\* update(posts).set({likesCount: likesCount.length}) settles; likePost
\* returns to its caller, unlikePost returns and its route answers
LikesUpdated(l, c) ==
    LET q == l.reqs[c]
    IN  [l EXCEPT !.likesCount[q.postId] = q.likesCount,
                  !.reqs[c].pc = IF q.op = "like" THEN "notify" ELSE "done",
                  !.reqs[c].status = IF q.op = "unlike" THEN 200 ELSE 0]

\* getPosts(1, 0), then find(p => p.id === postId): the posts found
TargetPost(postId) ==
    LET post == GetPosts(LikeFeed, 1)
    IN  {p \in {post[i] : i \in 1..Len(post)} : p.id = postId}

\* createLikeNotification(postId, postOwnerId, likerId): the notifications
\* table afterwards
CreateLikeNotification(notifications, postId, postOwnerId, likerId) ==
    IF postOwnerId = likerId THEN notifications
    ELSE IF likerId \notin LikeUserIds THEN notifications
    ELSE Append(notifications,
                [userId |-> postOwnerId, type |-> "like", postId |-> postId,
                 likerId |-> likerId])

\* The route after likePost returned a like: the lookup of the post, the
\* notification, the answer
LikeNotified(l, c) ==
    LET q == l.reqs[c]
        targetPost == TargetPost(q.postId)
        after == IF targetPost = {} THEN l.notifications
                 ELSE CreateLikeNotification(l.notifications, q.postId,
                          (CHOOSE p \in targetPost : TRUE).userId, q.userId)
    IN  [l EXCEPT !.notifications = after,
                  !.reqs[c].created = Len(after) - Len(l.notifications),
                  !.reqs[c].pc = "done", !.reqs[c].status = 200]

\* POST /api/posts/:id/like and DELETE /api/posts/:id/like arrive
LikeRequest(c) ==
    /\ likes.reqs[c].pc = "idle"
    /\ Len(likes.notifications) < MaxNotifications
    /\ \E op \in {"like", "unlike"}, postId \in LikePostIds, userId \in LikeUserIds :
          likes' = [likes EXCEPT !.reqs[c] =
                        [IdleLike EXCEPT !.pc = IF op = "like" THEN "check" ELSE "delete",
                                         !.op = op, !.postId = postId, !.userId = userId]]
    /\ UNCHANGED exceptLikes

\* storage.likePost(postId, userId) is called
LikeCall(c) ==
    /\ likes.reqs[c].pc = "idle"
    /\ \E postId \in LikePostIds, userId \in LikeUserIds :
          likes' = [likes EXCEPT !.reqs[c] =
                        [IdleLike EXCEPT !.pc = "check", !.op = "likePost",
                                         !.postId = postId, !.userId = userId]]
    /\ UNCHANGED exceptLikes

LikeCheck(c) ==
    /\ likes.reqs[c].pc = "check"
    /\ likes' = LikeChecked(likes, c)
    /\ UNCHANGED exceptLikes

LikeInsert(c) ==
    /\ likes.reqs[c].pc = "insert"
    /\ likes' = LikeInserted(likes, c)
    /\ UNCHANGED exceptLikes

UnlikeDelete(c) ==
    /\ likes.reqs[c].pc = "delete"
    /\ likes' = UnlikeDeleted(likes, c)
    /\ UNCHANGED exceptLikes

LikesCount(c) ==
    /\ likes.reqs[c].pc = "count"
    /\ likes' = LikesCounted(likes, c)
    /\ UNCHANGED exceptLikes

LikesUpdate(c) ==
    /\ likes.reqs[c].pc = "update"
    /\ likes' = LikesUpdated(likes, c)
    /\ UNCHANGED exceptLikes

LikeNotify(c) ==
    /\ likes.reqs[c].pc = "notify"
    /\ likes' = LikeNotified(likes, c)
    /\ UNCHANGED exceptLikes

\* the response is sent, the caller of likePost continues
LikeClose(c) ==
    /\ likes.reqs[c].pc = "done"
    /\ likes' = [likes EXCEPT !.reqs[c] = IdleLike]
    /\ UNCHANGED exceptLikes

LikeStep(c) ==
    \/ LikeRequest(c) \/ LikeCheck(c) \/ LikeInsert(c) \/ UnlikeDelete(c)
    \/ LikesCount(c) \/ LikesUpdate(c) \/ LikeNotify(c) \/ LikeClose(c)


(********* createPostComment and deletePostComment, await by await *********)
\* post_comments as the set of rows [id, postId], the serial of its ids,
\* posts.comments_count, and the call in progress: its parameters (postId of
\* createPostComment, id of deletePostComment), the post of the comment
\* selected and the rows counted
NoComments ==
    [rows |-> {}, serial |-> 0, commentsCount |-> [p \in LikePostIds |-> 0],
     pc |-> "idle", op |-> "", postId |-> 0, id |-> 0, counted |-> 0]

\* select().from(postComments).where(eq(postComments.postId, postId)): length
CommentsOfPost(m, postId) == Cardinality({r \in m.rows : r.postId = postId})

\* createPostComment: insert(postComments).values(insertComment) settles
CommentInserted(m) ==
    [m EXCEPT !.rows = @ \cup {[id |-> m.serial + 1, postId |-> m.postId]},
              !.serial = @ + 1, !.pc = "count"]

\* deletePostComment: the select of the comment settles
CommentSelected(m) ==
    LET comment == {r \in m.rows : r.id = m.id}
    IN  IF comment = {} THEN [m EXCEPT !.pc = "done"]
        ELSE [m EXCEPT !.pc = "delete", !.postId = (CHOOSE r \in comment : TRUE).postId]

\* deletePostComment: delete(postComments).where(eq(postComments.id, id))
CommentDeleted(m) ==
    [m EXCEPT !.rows = {r \in @ : r.id # m.id}, !.pc = "count"]

\* both: the select of commentsCount settles
CommentsCounted(m) ==
    [m EXCEPT !.counted = CommentsOfPost(m, m.postId), !.pc = "update"]

\* both: update(posts).set({commentsCount: ...}) settles and the call returns;
\* createPostComment sets commentsCount.length + 1, deletePostComment
\* commentsCount.length
CommentsUpdated(m) ==
    [m EXCEPT !.commentsCount[m.postId] =
                  IF m.op = "create" THEN m.counted + 1 ELSE m.counted,
              !.pc = "done"]

\* storage.createPostComment(commentData)
CommentCreate ==
    /\ comments.pc = "idle" /\ comments.serial < MaxComments
    /\ \E postId \in LikePostIds :
          comments' = [comments EXCEPT !.pc = "insert", !.op = "create",
                                       !.postId = postId, !.id = 0, !.counted = 0]
    /\ UNCHANGED exceptComments

\* storage.deletePostComment(id)
CommentDelete ==
    /\ comments.pc = "idle"
    /\ \E id \in 1..MaxComments :
          comments' = [comments EXCEPT !.pc = "select", !.op = "delete",
                                       !.postId = 0, !.id = id, !.counted = 0]
    /\ UNCHANGED exceptComments

CommentInsert ==
    /\ comments.pc = "insert"
    /\ comments' = CommentInserted(comments)
    /\ UNCHANGED exceptComments

CommentSelect ==
    /\ comments.pc = "select"
    /\ comments' = CommentSelected(comments)
    /\ UNCHANGED exceptComments

CommentDrop ==
    /\ comments.pc = "delete"
    /\ comments' = CommentDeleted(comments)
    /\ UNCHANGED exceptComments

CommentsCount ==
    /\ comments.pc = "count"
    /\ comments' = CommentsCounted(comments)
    /\ UNCHANGED exceptComments

CommentsUpdate ==
    /\ comments.pc = "update"
    /\ comments' = CommentsUpdated(comments)
    /\ UNCHANGED exceptComments

\* the caller continues
CommentReturn ==
    /\ comments.pc = "done"
    /\ comments' = [comments EXCEPT !.pc = "idle"]
    /\ UNCHANGED exceptComments


(************* POST /api/admin/send-violation-notice ***********************)
\* postId as the body gives it: text, and what parseInt makes of it. Only
\* text that is an integer can be compared with the integer column posts.id
PostIdTexts == {"1", "2", "9", "1abc"}
ParseInt(text) ==
    CASE text = "1" -> 1 [] text = "2" -> 2 [] text = "9" -> 9 [] text = "1abc" -> 1
IsIntegerText(text) == text \in {"1", "2", "9"}

\* Request bodies: the four fields, or one of them missing
NoticeBodies ==
    {[complete |-> TRUE, userId |-> u, postId |-> t] : u \in LikeUserIds, t \in PostIdTexts}
        \cup {[complete |-> FALSE, userId |-> 1, postId |-> "1"]}

\* The tables (posts with their content, the posts that have like rows and
\* comment rows, the notifications) and the request: its body, the post
\* read, what it has created and deleted, and its answer
NoNotice ==
    [posts |-> [p \in LikePostIds |-> IF p = 1 THEN "first post" ELSE "second post"],
     liked |-> LikePostIds, commented |-> LikePostIds, notifications |-> <<>>,
     pc |-> "idle", body |-> [complete |-> FALSE, userId |-> 0, postId |-> ""],
     postToDelete |-> <<>>, created |-> FALSE, deleted |-> {}, dbFailed |-> FALSE,
     status |-> 0]

\* The test of the four fields
NoticeReceived(n, body) ==
    LET fresh == [n EXCEPT !.body = body, !.postToDelete = <<>>, !.created = FALSE,
                           !.deleted = {}, !.dbFailed = FALSE, !.status = 0]
    IN  IF ~body.complete THEN [fresh EXCEPT !.pc = "done", !.status = 400]
        ELSE [fresh EXCEPT !.pc = "get"]

\* await storage.getPostById(postId_int) settles; 404 when there is no post
NoticeGot(n, dbOk) ==
    LET postId_int == ParseInt(n.body.postId)
    IN  IF ~dbOk THEN [n EXCEPT !.pc = "done", !.status = 500, !.dbFailed = TRUE]
        ELSE IF postId_int \notin DOMAIN n.posts
             THEN [n EXCEPT !.pc = "done", !.status = 404]
             ELSE [n EXCEPT !.pc = "notify", !.postToDelete = <<n.posts[postId_int]>>]

\* await notificationService.createViolationNotification(...) settles
NoticeNotified(n, dbOk) ==
    IF ~dbOk THEN [n EXCEPT !.pc = "done", !.status = 500, !.dbFailed = TRUE]
    ELSE [n EXCEPT !.pc = "deleteLikes", !.created = TRUE,
                   !.notifications =
                       Append(@, [userId |-> n.body.userId, type |-> "violation",
                                  deletedPostContent |-> n.postToDelete[1]])]

\* One statement of storage.deletePost(postId), which is given the postId of
\* the body, not postId_int: the statement is rejected when the text is no
\* integer
NoticeDeleted(n, part, dbOk) ==
    LET id == ParseInt(n.body.postId)
    IN  IF ~dbOk \/ ~IsIntegerText(n.body.postId)
        THEN [n EXCEPT !.pc = "done", !.status = 500, !.dbFailed = ~dbOk]
        ELSE CASE part = "likes" ->
                    [n EXCEPT !.liked = @ \ {id}, !.deleted = @ \cup {"likes"},
                              !.pc = "deleteComments"]
               [] part = "comments" ->
                    [n EXCEPT !.commented = @ \ {id}, !.deleted = @ \cup {"comments"},
                              !.pc = "deletePost"]
               [] part = "post" ->
                    [n EXCEPT !.posts = [p \in DOMAIN @ \ {id} |-> @[p]],
                              !.deleted = @ \cup {"post"},
                              !.pc = "done", !.status = 200]

NoticeReceive ==
    /\ notice.pc = "idle"
    /\ Len(notice.notifications) < MaxNotifications
    /\ \E body \in NoticeBodies : notice' = NoticeReceived(notice, body)
    /\ UNCHANGED exceptNotice

NoticeGet ==
    /\ notice.pc = "get"
    /\ \E dbOk \in BOOLEAN : notice' = NoticeGot(notice, dbOk)
    /\ UNCHANGED exceptNotice

NoticeNotify ==
    /\ notice.pc = "notify"
    /\ \E dbOk \in BOOLEAN : notice' = NoticeNotified(notice, dbOk)
    /\ UNCHANGED exceptNotice

NoticeDeleteLikes ==
    /\ notice.pc = "deleteLikes"
    /\ \E dbOk \in BOOLEAN : notice' = NoticeDeleted(notice, "likes", dbOk)
    /\ UNCHANGED exceptNotice

NoticeDeleteComments ==
    /\ notice.pc = "deleteComments"
    /\ \E dbOk \in BOOLEAN : notice' = NoticeDeleted(notice, "comments", dbOk)
    /\ UNCHANGED exceptNotice

NoticeDeletePost ==
    /\ notice.pc = "deletePost"
    /\ \E dbOk \in BOOLEAN : notice' = NoticeDeleted(notice, "post", dbOk)
    /\ UNCHANGED exceptNotice

\* the response is sent
NoticeClose ==
    /\ notice.pc = "done"
    /\ notice' = [notice EXCEPT !.pc = "idle"]
    /\ UNCHANGED exceptNotice


(******************* updateUserXP, await by await **************************)
\* Concurrent callers: PATCH /api/users/:id/xp and POST /api/quiz-attempts
XpCallers == {"patch", "quiz"}

\* xpGain: of the body, or round(score / totalQuestions * 50)
XpGains == {10, 50, 95}

IdleXp == [pc |-> "idle", xpGain |-> 0, xp |-> 0]

\* The row of the user (xp 0 and level 1 when created), the calls in
\* flight with the xp each has read, and the number and sum of the gains of
\* the calls made
NoXp ==
    [user |-> [xp |-> 0, level |-> 1], calls |-> [c \in XpCallers |-> IdleXp],
     made |-> 0, gained |-> 0]

\* const user = await this.getUser(id)
XpUserRead(x, c) == [x EXCEPT !.calls[c].xp = x.user.xp, !.calls[c].pc = "update"]

\* newXP, newLevel, and updateUser(id, {xp: newXP, level: newLevel}) settles
XpUpdated(x, c) ==
    LET newXP    == x.calls[c].xp + x.calls[c].xpGain
        newLevel == (newXP \div 100) + 1
    IN  [x EXCEPT !.user = [xp |-> newXP, level |-> newLevel],
                  !.calls[c].pc = "done"]

\* storage.updateUserXP(id, xpGain) is called
XpCall(c) ==
    /\ xp.calls[c].pc = "idle" /\ xp.made < MaxXpCalls
    /\ \E xpGain \in XpGains :
          xp' = [xp EXCEPT !.calls[c] = [pc |-> "read", xpGain |-> xpGain, xp |-> 0],
                           !.made = @ + 1, !.gained = @ + xpGain]
    /\ UNCHANGED exceptXp

XpRead(c) ==
    /\ xp.calls[c].pc = "read"
    /\ xp' = XpUserRead(xp, c)
    /\ UNCHANGED exceptXp

XpUpdate(c) ==
    /\ xp.calls[c].pc = "update"
    /\ xp' = XpUpdated(xp, c)
    /\ UNCHANGED exceptXp

\* the route answers
XpReturn(c) ==
    /\ xp.calls[c].pc = "done"
    /\ xp' = [xp EXCEPT !.calls[c] = IdleXp]
    /\ UNCHANGED exceptXp


Init ==
    /\ apiKey \in BOOLEAN
    /\ files = <<>>
    /\ call = IdleCall
    /\ stored = NoStored
    /\ got = NoGot
    /\ served = NoServed
    /\ reqs = [r \in Requests |-> IdleReq]
    /\ posts = <<>>
    /\ job = IdleJob
    /\ ui = IdleUi
    /\ probe = NoProbe
    /\ ann = IdleAnn
    /\ disk = NewDisk
    /\ trial = NoTrial
    /\ opt = IdleOpt
    /\ sug = IdleSug
    /\ likes = NoLikes
    /\ comments = NoComments
    /\ notice = NoNotice
    /\ xp = NoXp

Next ==
    \/ CloudStart \/ LocalStart \/ CloudItem \/ LocalItem
    \/ ProcessReturn \/ Reprocess \/ ProcessEnd
    \/ StoreMediaCall \/ GetMediaCall \/ ServeUpload

Spec == Init /\ [][Next]_vars

NextPosts ==
    \E r \in Requests :
        \/ PostReceive(r) \/ PostNormalizeItem(r) \/ PostNormalizeReturn(r)
        \/ PostInsert(r) \/ PostRespond(r) \/ PostClose(r)

SpecPosts == Init /\ [][NextPosts]_vars

NextUploads ==
    \/ JobStart \/ JobKeep \/ JobUpload \/ JobSettle \/ JobReturn \/ JobEnd

SpecUploads == Init /\ [][NextUploads]_vars

NextClient ==
    \/ UiSelect \/ UiProcess \/ UiLoopEnd \/ UiReport \/ UiRemove

SpecClient == Init /\ [][NextClient]_vars

NextCompress ==
    \/ ProbeChoose \/ ProbeProcess \/ ProbeReset

SpecCompress == Init /\ [][NextCompress]_vars

NextAnnounce ==
    \/ AnnReceive \/ AnnUpload \/ AnnTargets \/ AnnNotify \/ AnnRespond \/ AnnClose

SpecAnnounce == Init /\ [][NextAnnounce]_vars

NextStore ==
    \/ DiskConstruct \/ DiskMkdir \/ DiskGetMedia \/ DiskServe
    \/ \E c \in Callers : DiskStoreBegin(c) \/ DiskStoreSettle(c) \/ DiskStoreEnd(c)

SpecStore == Init /\ [][NextStore]_vars

NextExtension ==
    \/ TrialStore \/ TrialEnd

SpecExtension == Init /\ [][NextExtension]_vars


NextOptimize ==
    \/ OptScan \/ OptSkip \/ OptProcess \/ OptUpdate \/ OptRespond \/ OptClose

SpecOptimize == Init /\ [][NextOptimize]_vars


NextSuggest ==
    \/ SugStart \/ SugContinue \/ SugSelect \/ SugNotify \/ SugNextUser
    \/ SugReturn \/ SugEnd

SpecSuggest == Init /\ [][NextSuggest]_vars


\* One request at a time
NextLikes == LikeStep("l1")

SpecLikes == Init /\ [][NextLikes]_vars

\* Calls of likePost interleaved
NextLikesRace ==
    \E c \in LikeCallers :
        \/ LikeCall(c) \/ LikeCheck(c) \/ LikeInsert(c) \/ LikesCount(c)
        \/ LikesUpdate(c) \/ LikeClose(c)

SpecLikesRace == Init /\ [][NextLikesRace]_vars


NextComments ==
    \/ CommentCreate \/ CommentDelete \/ CommentInsert \/ CommentSelect
    \/ CommentDrop \/ CommentsCount \/ CommentsUpdate \/ CommentReturn

SpecComments == Init /\ [][NextComments]_vars


NextNotice ==
    \/ NoticeReceive \/ NoticeGet \/ NoticeNotify \/ NoticeDeleteLikes
    \/ NoticeDeleteComments \/ NoticeDeletePost \/ NoticeClose

SpecNotice == Init /\ [][NextNotice]_vars


NextXp ==
    \E c \in XpCallers : XpCall(c) \/ XpRead(c) \/ XpUpdate(c) \/ XpReturn(c)

SpecXp == Init /\ [][NextXp]_vars


(***************************** claims **************************************)
\* Entry i of the list being built comes from entry i of the list given: it
\* is that entry, or the descriptor of the upload or write made for it.
FromSamePosition(c, i) ==
    \/ c.out[i] = c.input[i]
    \/ \E k \in 1..Len(c.log) :
          /\ c.log[k].pos = i /\ c.log[k].ok
          /\ c.log[k].arg = c.input[i].url
          /\ c.out[i].url = c.log[k].result.url
          /\ c.out[i].thumbnailUrl = c.log[k].result.thumbnailUrl

\* C1: processMediaUrls of the cloud and of the local service returns a list
\* of the length of its input, whose entry i is derived from input entry i:
\* nothing is dropped, duplicated or reordered, whatever the uploads and
\* writes come to.
C1_SameLengthAndOrder ==
    /\ Len(call.out) <= Len(call.input)
    /\ call.pc = "loop" => Len(call.out) = call.i
    /\ call.pc = "done" => Len(call.out) = Len(call.input)
    /\ \A i \in 1..Len(call.out) : FromSamePosition(call, i)

\* A list of two different entries has been returned, one entry replaced and
\* one kept after a failure.
C1_Witness ==
    /\ call.pc = "done" /\ Len(call.input) >= 2
    /\ call.input[1] # call.input[2]
    /\ \E k, m \in 1..Len(call.log) : call.log[k].ok /\ ~call.log[m].ok

\* C2: an entry whose url does not start with 'data:' is returned as it was
\* given (type, url and thumbnailUrl), whatever its type and whatever
\* happens to the other entries.
C2_PassThrough ==
    \A i \in 1..Len(call.out) :
        ~StartsWithData(call.input[i].url) => call.out[i] = call.input[i]

\* A plain entry with a thumbnail was returned next to an entry that was
\* replaced.
C2_Witness ==
    /\ call.pc = "done"
    /\ \E i, j \in 1..Len(call.out) :
          /\ ~StartsWithData(call.input[i].url) /\ call.input[i].thumbnailUrl # <<>>
          /\ StartsWithData(call.input[j].url) /\ call.out[j] # call.input[j]

\* C3: for an image entry with a data URL whose uploadImage call succeeds,
\* cloud processMediaUrls returns exactly {type: the input type, url: the
\* provider's url, thumbnailUrl: the provider's thumbnail url (thumb, else
\* medium)}; the url is no data URL and the provider's delete_url and id are
\* not in the entry.
C3_UploadedImage ==
    call.svc = "cloud" =>
        \A k \in 1..Len(call.log) :
            LET l == call.log[k] IN
            (l.ok /\ l.pos <= Len(call.out)) =>
                LET o == call.out[l.pos] IN
                /\ call.input[l.pos].type = "image"
                /\ StartsWithData(call.input[l.pos].url)
                /\ DOMAIN o = {"type", "url", "thumbnailUrl"}
                /\ o.type = call.input[l.pos].type
                /\ o.url = l.data.url
                /\ o.thumbnailUrl = (IF l.data.thumb # <<>> THEN l.data.thumb ELSE l.data.medium)
                /\ ~StartsWithData(o.url)
                /\ o.url # l.data.delete_url

\* An upload succeeded where the provider gave a thumb and a medium variant.
C3_Witness ==
    /\ call.svc = "cloud" /\ call.pc = "done"
    /\ \E k \in 1..Len(call.log) :
          /\ call.log[k].ok
          /\ call.log[k].data.thumb # <<>> /\ call.log[k].data.medium # <<>>

\* A video entry with a data URL that the local service stored: the
\* descriptor of the file written for it
StoredVideo(c, i) ==
    \E k \in 1..Len(c.log) :
        /\ c.log[k].kind = "write" /\ c.log[k].pos = i /\ c.log[k].ok
        /\ c.out[i].url = c.log[k].result.url
        /\ c.out[i].url.prefix = "/uploads/"

\* C4 as stated: every entry of type 'video' is returned as it was given by
\* processMediaUrls of either service, data URL or not.
C4_VideoUnchanged ==
    \A i \in 1..Len(call.out) :
        call.input[i].type = "video" => call.out[i] = call.input[i]

\* C4, amended: the cloud service returns every video entry as given; the
\* local service returns it as given when its url is no data URL or when
\* storeMedia fails, and otherwise returns the descriptor of the file it
\* wrote.
C4_VideoUnchangedUnlessStored ==
    \A i \in 1..Len(call.out) :
        call.input[i].type = "video" =>
            IF call.svc = "local" /\ StartsWithData(call.input[i].url)
                                  /\ call.out[i] # call.input[i]
            THEN StoredVideo(call, i)
            ELSE /\ call.out[i] = call.input[i]
                 /\ \A k \in 1..Len(call.log) : call.log[k].pos = i => ~call.log[k].ok

\* The local service has replaced a data-URL video by the descriptor of the
\* file it wrote, and has returned another video entry as given.
C4_Witness ==
    /\ call.pc = "done" /\ call.svc = "local"
    /\ \E i, j \in 1..Len(call.out) :
          /\ call.input[i].type = "video" /\ StartsWithData(call.input[i].url)
          /\ call.out[i] # call.input[i]
          /\ call.input[j].type = "video" /\ call.out[j] = call.input[j]

\* C5: when uploadImage throws for one entry, cloud processMediaUrls does
\* not throw; that entry is returned as given, every other entry is
\* processed as without the failure, and when every upload throws the list
\* returned equals the list given.
C5_FailureKept ==
    call.svc = "cloud" =>
        /\ ~call.thrown
        /\ call.pc = "done" => Len(call.out) = Len(call.input)
        /\ \A i \in 1..Len(call.out) :
              LET calls == {k \in 1..Len(call.log) : call.log[k].pos = i}
              IN  /\ Cardinality(calls) <= 1
                  /\ calls = {} =>
                        /\ call.out[i] = call.input[i]
                        /\ ~(StartsWithData(call.input[i].url) /\ call.input[i].type = "image")
                  /\ \A k \in calls :
                        IF call.log[k].ok
                        THEN call.out[i] = Media(call.input[i].type, call.log[k].result.url,
                                                 call.log[k].result.thumbnailUrl)
                        ELSE call.out[i] = call.input[i]
        /\ (call.pc = "done" /\ \A k \in 1..Len(call.log) : ~call.log[k].ok)
              => call.out = call.input

\* The first upload failed and the one after it succeeded.
C5_Witness ==
    /\ call.svc = "cloud" /\ call.pc = "done" /\ Len(call.log) >= 2
    /\ ~call.log[1].ok /\ call.log[2].ok
    /\ call.out[call.log[1].pos] = call.input[call.log[1].pos]

\* C8: a list without a data-URL entry, in particular one that an earlier
\* pass normalized, is returned as given, with no upload call and no file
\* write made.
C8_ReprocessNoOp ==
    (\A i \in 1..Len(call.input) : ~StartsWithData(call.input[i].url)) =>
        /\ call.log = <<>>
        /\ call.out = SubSeq(call.input, 1, call.i)
        /\ call.pc = "done" => call.out = call.input

\* The second pass over a list whose entries the first pass replaced.
C8_Witness ==
    /\ call.pc = "done" /\ call.again /\ Len(call.input) >= 2
    /\ \A i \in 1..Len(call.input) :
          ~StartsWithData(call.input[i].url) /\ call.input[i] \notin InputMedia

\* C6 as stated: no media descriptor stored in a post row has a url that
\* starts with 'data:'.
C6_NoDataUrlStored ==
    \A k \in 1..Len(posts) :
        \A i \in 1..Len(posts[k].mediaUrls) :
            ~StartsWithData(posts[k].mediaUrls[i].url)

\* C6, amended: a stored descriptor has a url that starts with 'data:' only
\* if it is the descriptor the request gave, unchanged, and either its type
\* is not 'image' or the upload made for it failed; a data-URL image whose
\* upload succeeded is stored with the provider's url.
C6_DataUrlOnlyAsFallback ==
    \A k \in 1..Len(posts) :
        /\ Len(posts[k].mediaUrls) = Len(posts[k].given)
        /\ \A i \in 1..Len(posts[k].mediaUrls) :
              LET m  == posts[k].mediaUrls[i]
                  g  == posts[k].given[i]
                  up == {n \in 1..Len(posts[k].log) : posts[k].log[n].pos = i}
              IN  StartsWithData(m.url) =>
                      /\ m = g
                      /\ \/ g.type # "image"
                         \/ up # {} /\ \A n \in up : ~posts[k].log[n].ok

\* A row holds a video kept as a data URL beside an image that was uploaded.
C6_Witness ==
    \E k \in 1..Len(posts) :
        \E i, j \in 1..Len(posts[k].mediaUrls) :
            /\ StartsWithData(posts[k].mediaUrls[i].url)
            /\ StartsWithData(posts[k].given[j].url)
            /\ ~StartsWithData(posts[k].mediaUrls[j].url)

\* C7 as stated: a successful storeMedia followed by getMedia with the id
\* returned (the read itself succeeding) gives a non-null buffer equal to
\* the decoded payload written, for every MIME type.
C7_RoundTrip ==
    (stored.done /\ ~stored.threw /\ got.done /\ got.readOk
        /\ got.mediaId = stored.mediaFile.id)
    => got.buffer = <<stored.buffer>>

\* C9: in POST /api/posts with a non-empty media list the row is inserted
\* only after processMediaUrls has returned for the whole list, the row
\* carries exactly the list returned, and the 200 response is sent only
\* after the insert; no row holds a list that normalization has not gone
\* through.
C9_InsertAfterNormalize ==
    /\ \A r \in Requests :
          LET q == reqs[r] IN
          /\ q.pc = "normalize" => q.post = 0
          /\ q.post # 0 =>
                /\ q.post \in 1..Len(posts)
                /\ (q.mediaUrls # <<>> /\ q.mediaUrls[1] # <<>>) =>
                      /\ q.call.pc = "done"
                      /\ q.call.i = Len(q.call.input)
                      /\ q.call.input = q.mediaUrls[1]
                      /\ posts[q.post].mediaUrls = q.call.out
          /\ q.res.status = 200 => q.post # 0 /\ q.res.post = q.post
    /\ \A k \in 1..Len(posts) :
          /\ Len(posts[k].mediaUrls) = Len(posts[k].given)
          /\ \A i \in 1..Len(posts[k].given) :
                (StartsWithData(posts[k].given[i].url) /\ posts[k].given[i].type = "image")
                => \E n \in 1..Len(posts[k].log) : posts[k].log[n].pos = i

\* One request has inserted its row and not answered yet while another is
\* still in processMediaUrls.
C9_Witness ==
    \E r1, r2 \in Requests :
        /\ reqs[r1].pc = "respond" /\ reqs[r1].call.log # <<>>
        /\ reqs[r2].pc = "normalize" /\ reqs[r2].call.i = 1

\* The file GET /uploads/:filename serves for an id: the first of the known
\* extensions, in probe order, under which a file exists
ServedFile(id) ==
    LET order == <<"jpg", "jpeg", "png", "gif", "webp", "mp4", "webm", "mov">>
        first == CHOOSE k \in 1..Len(order) :
                    /\ <<id, order[k]>> \in DOMAIN files
                    /\ \A j \in 1..(k - 1) : <<id, order[j]>> \notin DOMAIN files
    IN  files[<<id, order[first]>>]

Accepted(resp) == resp.net /\ resp.ok /\ resp.success

\* C11: uploadImage returns a descriptor only when the API key is set, the
\* response is 2xx and its body reports success, and then the descriptor is
\* the provider's; in every other case (key absent, fetch rejected, non-2xx,
\* success false) it throws and returns no descriptor; without the key it
\* throws before any HTTP request is issued.
C11_UploadImageContract ==
    \A k \in 1..Len(job.uploads) :
        LET u == job.uploads[k] IN
        /\ u.state = "returned" =>
              /\ apiKey /\ u.fetched /\ u.resp # <<>> /\ Accepted(u.resp[1])
              /\ u.result.url = u.resp[1].data.url /\ u.result.id = u.resp[1].data.id
        /\ u.state = "threw" =>
              /\ u.result = NoResult
              /\ ~apiKey \/ (u.resp # <<>> /\ ~Accepted(u.resp[1]))
        /\ u.state = "fetching" => apiKey /\ u.fetched /\ u.resp = <<>>
        /\ u.resp # <<>> => (u.state = "returned" <=> Accepted(u.resp[1]))
        /\ ~apiKey => ~u.fetched /\ u.state = "threw"

\* One invocation has seen uploadImage return a descriptor and throw on a
\* response with success: false.
C11_Witness ==
    \E k, m \in 1..Len(job.uploads) :
        /\ job.uploads[k].state = "returned" /\ job.uploads[k].result # NoResult
        /\ job.uploads[m].state = "threw" /\ job.uploads[m].resp # <<>>
        /\ job.uploads[m].resp[1].ok /\ ~job.uploads[m].resp[1].success

\* The positions up to n of the entries of list that are data-URL images
DataImagePositions(list, n) ==
    LET IsDataImage(k) == StartsWithData(list[k].url) /\ IsImageType(list[k])
    IN  SelectSeq([k \in 1..n |-> k], IsDataImage)

\* C17: within one invocation of cloud processMediaUrls the uploadImage calls
\* are those for the data-URL images, in list order, one call each (no retry
\* after a failure); a call begins only when the one before it has returned
\* or thrown, so at most one upload of the invocation is in flight.
C17_UploadsSequential ==
    LET n       == Len(job.uploads)
        reached == IF job.pc = "fetch" THEN job.i + 1 ELSE job.i
    IN  /\ [k \in 1..n |-> job.uploads[k].pos] = DataImagePositions(job.input, reached)
        /\ \A k \in 1..n : job.uploads[k].arg = job.input[job.uploads[k].pos].url
        /\ \A k \in 1..n :
              job.uploads[k].state = "fetching" => k = n /\ job.pc = "fetch"
        /\ Cardinality({k \in 1..n : job.uploads[k].state = "fetching"}) <= 1

\* An invocation has returned a list for which it made two uploads, the
\* first of which failed, and a second one is not begun for that entry.
C17_Witness ==
    /\ job.pc = "done" /\ Len(job.uploads) = 2
    /\ job.uploads[1].state = "threw" /\ job.uploads[1].fetched
    /\ job.uploads[2].pos = 2

(******************** claims on the client component ************************)
\* The number of files among the first n of a trace that gave an entry
RECURSIVE Loads(_, _)
Loads(trace, n) ==
    IF n = 0 THEN 0 ELSE Loads(trace, n - 1) + (IF trace[n] = "load" THEN 1 ELSE 0)

\* C12: from an empty selection, after any selections in the picker and any
\* removals, the selection never holds more than maxFiles entries; a file
\* is handed to processFile only while the closure's selection and the new
\* entries stay under the limit, so the files beyond it are neither
\* processed nor added.
C12_AtMostMaxFiles ==
    /\ Len(ui.selectedMedia) <= maxFiles
    /\ Len(ui.captured) + Len(ui.newMediaFiles) <= maxFiles
    /\ Len(ui.trace) = ui.k /\ ui.k <= Len(ui.files)
    /\ Len(ui.newMediaFiles) = Loads(ui.trace, Len(ui.trace))
    /\ \A t \in 1..Len(ui.trace) :
          Len(ui.captured) + Loads(ui.trace, t - 1) < maxFiles

\* A selection of more files than the limit leaves has been reported: the
\* selection is full and files of the picker were left out.
C12_Witness ==
    /\ ui.reported # <<>> /\ Len(ui.reported[1]) = maxFiles
    /\ Len(ui.captured) > 0 /\ ui.k < Len(ui.files)

\* C13: every file handed to handleFileSelect is checked against image/*
\* and video/*: no entry of the selection holds a file of another MIME
\* type, and every entry of type 'video' holds a file of a video/* type.
C13_OnlyAcceptedTypes ==
    \A n \in 1..Len(ui.selectedMedia) :
        LET m == ui.selectedMedia[n] IN
        /\ IsImageMime(m.file.type) \/ IsVideoMime(m.file.type)
        /\ m.type = "video" => IsVideoMime(m.file.type)

\* The entries of the files of a trace that loaded, in the picker's order
Loaded(picked, trace) ==
    LET IsLoad(n) == trace[n] = "load"
        which     == SelectSeq([n \in 1..Len(trace) |-> n], IsLoad)
    IN  [n \in 1..Len(which) |-> ProcessFile(picked[which[n]], "load").value[1]]

\* C15: a file whose read or decode fails (processFile resolves null or
\* throws) adds no entry and does not end the loop, which goes on to the
\* files after it until none is left or the limit is reached; the list
\* handed to onMediaSelect is the selection the handler began with followed
\* by the entries of the files that loaded, in the picker's order, and
\* isUploading is false again once it is reported.
C15_FailedFilesSkipped ==
    /\ ui.newMediaFiles = Loaded(ui.files, ui.trace)
    /\ ui.pc \in {"loop", "report"} => ui.isUploading /\ ui.reported = <<>>
    /\ ui.pc = "report" => ui.k = Len(ui.files) \/ LimitReached(ui)
    /\ ui.pc = "idle" => ~ui.isUploading
    /\ ui.reported # <<>> =>
          /\ ui.reported[1] = ui.captured \o Loaded(ui.files, ui.trace)
          /\ ui.k = Len(ui.files) \/ LimitReached(ui)

\* A selection has been reported in which a file threw, the next gave null
\* and a later one loaded, added to entries selected before.
C15_Witness ==
    /\ ui.reported # <<>> /\ ~ui.isUploading /\ Len(ui.captured) > 0
    /\ \E a, b, c \in 1..Len(ui.trace) :
          /\ a < c /\ b < c
          /\ ui.trace[a] = "throw" /\ ui.trace[b] = "error" /\ ui.trace[c] = "load"

(******************** claims on processFile ********************************)
\* The larger of two numbers
Max(a, b) == IF a >= b THEN a ELSE b

\* C14: for every image file of 1048576 bytes or more that decodes to
\* (w, h), processFile gives a JPEG data URL drawn on a canvas (w', h') with
\* max(w', h') <= 800, w' <= w, h' <= h and w' : h' equal to w : h up to the
\* rounding to whole pixels; an image of 2000 x 1000 gives 800 x 400.
C14_CompressedWithin800 ==
    (probe.pc = "done" /\ probe.outcome = "load" /\ probe.file.size >= 1048576) =>
        LET file == probe.file
            v    == probe.result.value
        IN  /\ v # <<>> /\ v[1].canvas # <<>>
            /\ v[1].url.prefix = "data:" /\ v[1].url.mime = "image/jpeg"
            /\ LET c == v[1].canvas[1]
               IN  /\ Max(c.width, c.height) <= 800
                   /\ c.width <= file.width /\ c.height <= file.height
                   /\ c.width * file.height - c.height * file.width
                          \in (0 - Max(file.width, file.height))..Max(file.width, file.height)
                   /\ (file.width = 2000 /\ file.height = 1000) =>
                          (c.width = 800 /\ c.height = 400)

(******************** claims on the announcements ***************************)
\* The descriptor of attachment k before any upload: its type and data URL
OriginalDescriptor(file) ==
    Media(IF IsImageMime(file.mimetype) THEN "image" ELSE "video", DataUrlOf(file), <<>>)

\* C16: when the upload of an attachment of an announcement fails (an image
\* whose upload throws, and every video), the request still answers 200, a
\* notification is written for every target user, and the media list stored
\* with each notification holds the original descriptor of the failed
\* attachment.
C16_FailedAttachmentRetained ==
    (ann.pc = "done" /\ ann.failed # <<>> /\ ann.res.status = 200) =>
        /\ Len(ann.notified) = Len(ann.targetUserIds)
        /\ \A m \in 1..Len(ann.notified), f \in 1..Len(ann.failed) :
              /\ ann.notified[m].mediaUrls # <<>>
              /\ \E e \in 1..Len(ann.notified[m].mediaUrls[1]) :
                    LET d == ann.notified[m].mediaUrls[1][e]
                        o == OriginalDescriptor(ann.body.files[ann.failed[f]])
                    IN  d.type = o.type /\ d.url = o.url

(******************** claims on the local storage ***************************)
\* The name and the bytes a call in flight writes
NameOfStore(st) == FileNameOf(st.mediaId, st.args[2])
BufferOfStore(st) == Base64Decode(Base64Part(st.args[1]))

\* Caller c's write succeeds in this step
Writes(c) == disk.stores[c].pc = "writing" /\ disk'.stores[c].pc = "returned"

C20_AbsentAtCallRejects ==
    \A c \in Callers :
        (disk.stores[c].absentAtCall /\ disk.stores[c].pc \in {"returned", "rejected"})
        => (disk.stores[c].pc = "rejected" /\ disk.stores[c].mediaFile = NoMediaFile)

\* C20 (amended): the construction never throws: a failing mkdir is logged
\* and ensureDirectories ends; a storeMedia call whose write runs while the
\* uploads directory is absent rejects, returns no descriptor and leaves no
\* file behind, while a call made before the directory creation completes
\* returns its descriptor when mkdir completes before its write.
C20_AbsentAtWriteRejects ==
    /\ disk.logged => disk.pc = "ready" /\ ~(disk.uploadsDir /\ disk.thumbnailsDir)
    /\ (disk.pc = "ready" /\ ~disk.logged) => disk.uploadsDir /\ disk.thumbnailsDir
    /\ ~disk.uploadsDir => disk.dir = <<>>
    /\ \A c \in Callers :
          LET st == disk.stores[c] IN
          /\ st.pc = "rejected" => st.mediaFile = NoMediaFile
          /\ st.pc = "returned" =>
                /\ disk.uploadsDir /\ st.mediaFile # NoMediaFile
                /\ NameOfStore(st) \in DOMAIN disk.dir

\* The creation of uploads has failed and was logged, and a call made before
\* it ended was rejected; and, in the same state, nothing is in the directory.
C20_Witness ==
    /\ disk.pc = "ready" /\ disk.logged /\ ~disk.uploadsDir
    /\ \E c \in Callers :
          disk.stores[c].pc = "rejected" /\ disk.stores[c].absentAtCall

MimeToExt ==
    [m \in {"image/jpeg", "image/jpg", "image/png", "image/gif", "image/webp",
            "video/mp4", "video/webm", "video/quicktime"} |->
        CASE m = "image/jpeg" -> "jpg"  [] m = "image/jpg" -> "jpg"
          [] m = "image/png"  -> "png"  [] m = "image/gif" -> "gif"
          [] m = "image/webp" -> "webp" [] m = "video/mp4" -> "mp4"
          [] m = "video/webm" -> "webm" [] m = "video/quicktime" -> "mov"]
TableExt(m) == IF m \in DOMAIN MimeToExt THEN MimeToExt[m] ELSE "bin"

\* C21: for every mimeType a successful storeMedia writes exactly one file,
\* <id>.<ext> with <ext> the table's entry for the mimeType or 'bin' when
\* the table has none; the descriptor's url is '/uploads/<id>.<ext>', its
\* size is the length of the decoded payload, and it has a thumbnailUrl (the
\* placeholder '/uploads/thumbnails/<id>_thumb.jpg') exactly when the
\* mimeType starts with 'video/'.
C21_NamedByTable ==
    (trial.pc = "settled" /\ ~trial.threw) =>
        LET name == <<trial.mediaId, TableExt(trial.mimeType)>>
            f    == trial.mediaFile
        IN  /\ DOMAIN trial.dir = DOMAIN trial.before \cup {name}
            /\ \A k \in DOMAIN trial.before \ {name} : trial.dir[k] = trial.before[k]
            /\ trial.dir[name] = Base64Decode(Base64Part(trial.dataUrl))
            /\ f.url = PlainUrl("/uploads/", <<trial.mediaId, ".", TableExt(trial.mimeType)>>)
            /\ f.size = Len(Base64Decode(Base64Part(trial.dataUrl)))
            /\ f.thumbnailUrl =
                 IF trial.mimeType \in {"video/mp4", "video/webm", "video/quicktime",
                                        "video/x-msvideo"}
                 THEN <<PlainUrl("/uploads/",
                          <<"thumbnails/", trial.mediaId, "_thumb", ".", "jpg">>)>>
                 ELSE <<>>

\* The posts whose media list held a data-URL entry when the scan ran
DataPosts(o) == {id \in 1..MaxPosts : HasDataUrls(o.scanned[id])}

\* C22: POST /api/admin/optimize-media reprocesses exactly the posts whose
\* media list holds a data-URL entry at scan time: every other post's media
\* list is left unchanged, a reprocessed post keeps the length and order of
\* its list and its entries that are no data URLs, and the optimizedCount
\* reported is the number of posts that held a data-URL entry, whether or
\* not an upload succeeded (the database answering every statement it can
\* execute).
C22_ReprocessesDataPosts ==
    (opt.pc = "responded" /\ ~opt.dbDown) =>
        /\ opt.status = 200
        /\ opt.updated = DataPosts(opt)
        /\ opt.reported = Cardinality(DataPosts(opt))
        /\ \A id \in 1..MaxPosts \ DataPosts(opt) : opt.table[id] = opt.scanned[id]
        /\ \A id \in DataPosts(opt) :
              /\ Len(opt.table[id]) = Len(opt.scanned[id])
              /\ \A i \in 1..Len(opt.scanned[id]) :
                    ~StartsWithData(opt.scanned[id][i].url)
                        => opt.table[id][i] = opt.scanned[id][i]

\* The suggestion notifications addressed to a user
SuggestionsTo(g, userId) ==
    {i \in 1..Len(g.notifications) :
        g.notifications[i].type = "suggestion" /\ g.notifications[i].userId = userId}

\* C23: generatePostSuggestions creates, for every user for whom at least
\* one of the 20 most recent public posts was written by another user, at
\* least 1 and at most 2 'suggestion' notifications addressed to that user,
\* each referencing a post the user did not write (no database call
\* failing).
C23_OneOrTwoSuggestions ==
    (sug.pc = "done" /\ ~sug.failed) =>
        \A k \in 1..Len(AllUsers) :
            LET userId == AllUsers[k]
                others == OtherUsersPosts(GetPosts(sug.feed, 20), userId)
            IN  /\ others # <<>> =>
                     /\ Cardinality(SuggestionsTo(sug, userId)) >= 1
                     /\ Cardinality(SuggestionsTo(sug, userId)) <= 2
                /\ \A i \in SuggestionsTo(sug, userId) :
                      \E j \in 1..Len(sug.feed) :
                          /\ sug.feed[j].id = sug.notifications[i].suggestionPostId
                          /\ sug.feed[j].userId # userId

\* No likePost or unlikePost is between its first and its last statement
LikesSettled(l) == \A c \in LikeCallers : l.reqs[c].pc \in {"idle", "notify", "done"}

\* likes_count of every post is the number of its like rows
LikesCountExact(l) == \A p \in LikePostIds : l.likesCount[p] = RowsOfPost(l, p)

\* A step in which likePost finds the pair already liked
AlreadyLiked(c) ==
    /\ likes.reqs[c].pc = "check"
    /\ likes'.reqs[c].pc # "check"
    /\ likes.rows[<<likes.reqs[c].postId, likes.reqs[c].userId>>] > 0

\* C24: after any sequence of completed, non-overlapping likePost and
\* unlikePost operations on existing posts the likesCount of each post is
\* the number of its like rows; likePost on a pair already liked returns
\* null (answered with 400) and changes neither the like rows nor likesCount.
C24_LikesCountMatchesRows ==
    /\ [](LikesSettled(likes) => LikesCountExact(likes))
    /\ [][AlreadyLiked("l1") =>
            /\ likes'.rows = likes.rows
            /\ likes'.likesCount = likes.likesCount
            /\ likes'.reqs["l1"].pc = "done"
            /\ likes'.reqs["l1"].status = 400
            /\ ~likes'.reqs["l1"].inserted]_vars

\* Both users like post 1, and a repeated like is rejected
C24_Witness ==
    /\ likes.reqs["l1"].pc = "done" /\ likes.reqs["l1"].op = "like"
    /\ likes.reqs["l1"].status = 400
    /\ likes.reqs["l1"].postId = 1
    /\ likes.likesCount[1] = 2 /\ RowsOfPost(likes, 1) = 2

\* C25: under every interleaving of concurrent likePost calls (two calls for
\* the same post and user included) at most one like row exists per (post,
\* user) pair, and once all calls have completed the post's likesCount is
\* the number of its like rows.
C25_OneRowPerPair ==
    /\ \A pair \in LikePostIds \X LikeUserIds : likes.rows[pair] <= 1
    /\ (\A c \in LikeCallers : likes.reqs[c].pc \in {"idle", "done"})
          => LikesCountExact(likes)

\* C27: for every existing public post, whatever its position in the feed,
\* a first-time like through POST /api/posts/:id/like by an existing user
\* other than the owner creates exactly one 'like' notification addressed to
\* the owner; a like by the owner and a repeated like (rejected as already
\* liked) create no notification.
C27_LikeNotifiesOwner ==
    LET q == likes.reqs["l1"]
    IN  (q.pc = "done" /\ q.op = "like") =>
            IF q.status = 200 /\ q.userId # OwnerOf(q.postId)
            THEN /\ q.created = 1
                 /\ likes.notifications[Len(likes.notifications)] =
                        [userId |-> OwnerOf(q.postId), type |-> "like",
                         postId |-> q.postId, likerId |-> q.userId]
            ELSE q.created = 0

\* C26: after any sequence of completed, non-overlapping createPostComment
\* and deletePostComment operations on an existing post the commentsCount
\* stored on the post is the number of comment rows of that post.
C26_CommentsCountMatchesRows ==
    comments.pc \in {"idle", "done"} =>
        \A p \in LikePostIds : comments.commentsCount[p] = CommentsOfPost(comments, p)

\* C28: POST /api/admin/send-violation-notice does both or neither: in every
\* outcome (success, post not found, missing fields, failure of the deletion
\* step) a 'violation' notification carrying the post's content has been
\* created if and only if the post, its likes and its comments have been
\* deleted; when the post does not exist it answers 404, creates no
\* notification and deletes nothing.
C28_NoticeAndDeletionTogether ==
    notice.pc = "done" =>
        /\ notice.created <=> notice.deleted = {"likes", "comments", "post"}
        /\ notice.status = 404 => ~notice.created /\ notice.deleted = {}

\* C29: under every interleaving of concurrent updateUserXP calls for the
\* same user, once all calls have completed the user's xp is the initial xp
\* plus the sum of all gains, and level is floor(xp / 100) + 1.
C29_AllGainsCounted ==
    (\A c \in XpCallers : xp.calls[c].pc \in {"idle", "done"}) =>
        /\ xp.user.xp = 0 + xp.gained
        /\ xp.user.level = (xp.user.xp \div 100) + 1

\* C30: a removal (removeMedia) performed while a file selection is still
\* being processed is not lost: when the pending handleFileSelect completes,
\* the selection it reports to the parent is built on the selection as the
\* removals left it (the removed entry is absent from it), under every
\* interleaving of the remove callback with the file processing.
C30_RemovalNotLost ==
    [][(ui.pc = "report" /\ ui'.pc = "idle")
          => ui'.reported = <<ui.selectedMedia \o ui.newMediaFiles>>]_vars

====
